---------------------------- MODULE Spec2Model ----------------------------
(***************************************************************************)
(* A model of the web-editor backend: the path resolver and the            *)
(* filesystem surface over the host working copy (workspaceFsController),  *)
(* the VFS <-> host sync engine (codeExecutionController), the permission  *)
(* gate (authUtils) and the container session manager (dockerController,   *)
(* terminalController).                                                    *)
(*                                                                         *)
(* The module holds several specifications over one set of variables; each *)
(* specification exercises one part of the program and leaves the          *)
(* variables of the other parts at their initial values:                   *)
(*   SpecPath    resolveUserProjectPath as a function of its arguments     *)
(*   SpecFs      the permission-gated filesystem surface                   *)
(*   SpecSync    pull (VFS -> host) and push (host -> VFS)                 *)
(*   SpecSession container sessions: create, exec, stop, idle eviction     *)
(*   SpecSweep   the shutdown sweep over two registered sessions           *)
(*   SpecVfs     the document requests of fileController                   *)
(*   SpecTrigger the sync triggers of the filesystem surface               *)
(*   SpecPty     the PTY handlers of one terminal socket                   *)
(***************************************************************************)
EXTENDS Integers, Sequences, FiniteSets, TLC

VARIABLES
    pathCall,          \* the last call of resolveUserProjectPath: arguments and outcome
    vfs,               \* the File collection: node id -> document
    host,              \* the host filesystem below BASE_PROJECT_DIR: absolute path -> entry
    fsLast,            \* the last filesystem-surface request and its response
    clock,             \* Date.now(), in milliseconds
    syncLog,           \* the pulls, pushes and host edits so far, oldest first
    activeContainers,  \* the session registry: key -> session info
    containerTimers,   \* the idle timers: key -> "none", "armed" (the whole timeout
                       \* ahead), "aged" (part of it has passed) or "fired"
    activePtySessions, \* the PTY sessions: key (socket) -> container of the PTY and its width
    containers,        \* the Docker daemon: container id -> state, bind mount; and
                       \* whether a shutdown sweep took it and its removal threw
    tasks,             \* the calls in flight: slot -> the call and the await it is at
    pulled,            \* the project directories that a pull has completed for
    ensured,           \* the container that the last ensure call returned
    spawned,           \* the number of calls started
    ptyProcesses,      \* the processes that pty.spawn has made: id -> state and socket
    disconnected       \* the sockets whose disconnect handler has run

\* the PTY processes and the sockets, which only SpecPty follows
ptyVars == <<ptyProcesses, disconnected>>

sessionVars == <<activeContainers, containerTimers, activePtySessions, containers, tasks,
                 pulled, ensured, spawned, ptyVars>>

\* the variables that each specification leaves alone
PathRest == <<vfs, host, fsLast, clock, syncLog, sessionVars>>
FsRest == <<pathCall, clock, syncLog, sessionVars>>
SyncRest == <<pathCall, fsLast, sessionVars>>
SessionRest == <<pathCall, fsLast, clock, syncLog, ptyVars>>

----------------------------------------------------------------------------
(* Strings are sequences of one-character strings, so that String.startsWith, *)
(* String.replace(/^\//, '') and the splitting done by path.resolve are what  *)
(* the code computes.                                                         *)

MaxPathLen == 5

PathChars == {"/", ".", "d", "x"}

RECURSIVE StringsUpTo(_)
StringsUpTo(n) ==
    IF n = 0 THEN {<<>>}
    ELSE LET shorter == StringsUpTo(n - 1)
         IN  shorter \cup {Append(s, c) : s \in {t \in shorter : Len(t) = n - 1}, c \in PathChars}

\* a path (as segments) is p itself or a descendant of p, segment by segment
IsWithin(root, p) ==
    /\ Len(root) <= Len(p)
    /\ SubSeq(p, 1, Len(root)) = root

\* String.prototype.startsWith
StartsWith(s, p) ==
    /\ Len(p) <= Len(s)
    /\ SubSeq(s, 1, Len(p)) = p

\* s.split('/'): the segments between separators, empty ones included
RECURSIVE SplitPath(_)
SplitPath(s) ==
    IF s = <<>> THEN << <<>> >>
    ELSE LET rest == SplitPath(Tail(s))
         IN  IF Head(s) = "/" THEN << <<>> >> \o rest
             ELSE << <<Head(s)>> \o Head(rest) >> \o Tail(rest)

\* path normalisation of an absolute path: "" and "." are dropped, ".." removes
\* the last segment kept so far and is dropped at the filesystem root
RECURSIVE NormalizeSegs(_, _)
NormalizeSegs(acc, segs) ==
    IF segs = <<>> THEN acc
    ELSE LET g == Head(segs)
         IN  IF g = <<>> \/ g = <<".">> THEN NormalizeSegs(acc, Tail(segs))
             ELSE IF g = <<".", ".">>
                  THEN NormalizeSegs(IF acc = <<>> THEN acc ELSE SubSeq(acc, 1, Len(acc) - 1), Tail(segs))
                  ELSE NormalizeSegs(Append(acc, g), Tail(segs))

\* path.resolve(base, s) for an absolute base given as its segments: an
\* absolute s replaces the base, a relative one is applied to it
PathResolve(base, s) ==
    IF s # <<>> /\ Head(s) = "/"
    THEN NormalizeSegs(<<>>, SplitPath(s))
    ELSE NormalizeSegs(base, SplitPath(s))

\* the text of an absolute path: "/" + segments joined by "/"
RECURSIVE JoinSegs(_)
JoinSegs(segs) ==
    IF segs = <<>> THEN <<>>
    ELSE <<"/">> \o Head(segs) \o JoinSegs(Tail(segs))

PathString(segs) == IF segs = <<>> THEN <<"/">> ELSE JoinSegs(segs)

\* path.resolve(process.cwd(), 'projects'), as segments
BASE_PROJECT_DIR == << <<"p">> >>

\* path.resolve(BASE_PROJECT_DIR, userId.toString(), projectSlug.toString())
ProjectRootOnHost(userId, projectSlug) ==
    PathResolve(PathResolve(BASE_PROJECT_DIR, userId), projectSlug)

\* relativePathWithinProject.toString().replace(/^\//, '')
CleanRelativePath(rel) ==
    IF rel # <<>> /\ Head(rel) = "/" THEN Tail(rel) ELSE rel

\* the security check of resolveUserProjectPath: TRUE when the call throws
TraversalCheckThrows(root, full) ==
    /\ ~ StartsWith(PathString(full), PathString(root))
    /\ full # root

resolveUserProjectPath(userId, projectSlug, rel) ==
    IF userId = <<>> \/ projectSlug = <<>>
    THEN [status |-> "error", path |-> <<>>]
    ELSE LET root == ProjectRootOnHost(userId, projectSlug)
             full == PathResolve(root, CleanRelativePath(rel))
         IN  IF TraversalCheckThrows(root, full)
             THEN [status |-> "traversal", path |-> <<>>]
             ELSE [status |-> "ok", path |-> full]

----------------------------------------------------------------------------
(* The host filesystem (fs, fs.promises).  host maps the absolute paths    *)
(* that exist to their entries; BASE_PROJECT_DIR and its ancestors always  *)
(* exist.                                                                  *)

DirEntry == [kind |-> "dir", content |-> ""]
FileEntry(c) == [kind |-> "file", content |-> c]

\* path.dirname
ParentOf(p) == IF p = <<>> THEN p ELSE SubSeq(p, 1, Len(p) - 1)

ImplicitDir(p) == IsWithin(p, BASE_PROJECT_DIR)

\* fs.existsSync
HostExists(h, p) == ImplicitDir(p) \/ p \in DOMAIN h

\* fs.stat(p).isDirectory() for an existing p
HostIsDir(h, p) == ImplicitDir(p) \/ (p \in DOMAIN h /\ h[p].kind = "dir")

HostIsFile(h, p) == p \in DOMAIN h /\ h[p].kind = "file"

\* fsPromises.mkdir(p, { recursive: true }): fails on a file in the way
MkdirRecursive(h, p) ==
    LET chain == {SubSeq(p, 1, n) : n \in 1..Len(p)} \ {q \in {SubSeq(p, 1, n) : n \in 1..Len(p)} : ImplicitDir(q)}
    IN  IF \E q \in chain : HostIsFile(h, q)
        THEN [ok |-> FALSE, host |-> h]
        ELSE [ok |-> TRUE,
              host |-> [q \in DOMAIN h \cup chain |-> IF q \in DOMAIN h THEN h[q] ELSE DirEntry]]

\* fsPromises.writeFile(p, content): ENOENT / ENOTDIR without a parent
\* directory, EISDIR on a directory
WriteFileHost(h, p, c) ==
    IF ~ HostIsDir(h, ParentOf(p)) \/ HostIsDir(h, p)
    THEN [ok |-> FALSE, host |-> h]
    ELSE [ok |-> TRUE,
          host |-> [q \in DOMAIN h \cup {p} |-> IF q = p THEN FileEntry(c) ELSE h[q]]]

\* fsPromises.rm(p, { recursive: true, force: true })
RmRecursive(h, p) == [q \in {r \in DOMAIN h : ~ IsWithin(p, r)} |-> h[q]]

\* fsPromises.rename(old, new): the subtree of old moves; a file replaces a
\* file that is at new, a directory an empty directory; fails when old is
\* missing, when new has no parent directory or lies inside old, and when
\* the entry at new cannot be replaced (EISDIR, ENOTDIR, ENOTEMPTY)
RenameHost(h, old, new) ==
    IF \/ old \notin DOMAIN h
       \/ ~ HostIsDir(h, ParentOf(new))
       \/ IsWithin(old, new)
       \/ /\ new \in DOMAIN h
          /\ \/ h[new].kind # h[old].kind
             \/ \E r \in DOMAIN h : r # new /\ IsWithin(new, r)
    THEN [ok |-> FALSE, host |-> h]
    ELSE LET stay == {r \in DOMAIN h : ~ IsWithin(old, r) /\ r # new}
             To(r) == new \o SubSeq(r, Len(old) + 1, Len(r))
             moved == {r \in DOMAIN h : IsWithin(old, r)}
         IN  [ok |-> TRUE,
              host |-> [q \in stay \cup {To(r) : r \in moved} |->
                          IF q \in stay THEN h[q]
                          ELSE h[CHOOSE r \in moved : To(r) = q]]]

----------------------------------------------------------------------------
(* The File collection (models/fileModel.js).  parentId 0 is null.         *)

NullId == 0

FileDoc(userId, name, type, content, parentId, updatedAt) ==
    [userId |-> userId, name |-> name, type |-> type, content |-> content,
     parentId |-> parentId, isTemplate |-> FALSE, sharedWith |-> <<>>,
     updatedAt |-> updatedAt]

\* File.findOne({ userId, name, parentId: null, type: 'folder', isTemplate: false }):
\* the ids that match (the unique index allows at most one)
ProjectRootIds(store, owner, slug) ==
    {i \in DOMAIN store :
        /\ store[i].userId = owner
        /\ store[i].name = slug
        /\ store[i].parentId = NullId
        /\ store[i].type = "folder"
        /\ ~ store[i].isTemplate}

\* checkProjectPermission where a Write entry does not satisfy a Read request
checkProjectPermissionExact(store, loggedInUserId, projectOwnerId, projectSlug, requiredPermission) ==
    IF loggedInUserId = <<>> \/ projectOwnerId = <<>> \/ projectSlug = <<>> THEN "false"
    ELSE IF loggedInUserId = projectOwnerId THEN "true"
    ELSE LET roots == ProjectRootIds(store, projectOwnerId, projectSlug)
         IN  IF roots = {} THEN "throw"
             ELSE LET projectRootVfs == store[CHOOSE i \in roots : \A j \in roots : i <= j]
                      IsActor(e) == e.user = loggedInUserId
                      found == SelectSeq(projectRootVfs.sharedWith, IsActor)
                  IN  IF found = <<>> THEN "false"
                      ELSE IF Head(found).permission = requiredPermission THEN "true" ELSE "false"

\* checkProjectPermission where a missing project answers false
checkProjectPermissionNoThrow(store, loggedInUserId, projectOwnerId, projectSlug, requiredPermission) ==
    IF loggedInUserId = <<>> \/ projectOwnerId = <<>> \/ projectSlug = <<>> THEN "false"
    ELSE IF loggedInUserId = projectOwnerId THEN "true"
    ELSE LET roots == ProjectRootIds(store, projectOwnerId, projectSlug)
         IN  IF roots = {} THEN "false"
             ELSE LET projectRootVfs == store[CHOOSE i \in roots : \A j \in roots : i <= j]
                      IsActor(e) == e.user = loggedInUserId
                      found == SelectSeq(projectRootVfs.sharedWith, IsActor)
                  IN  IF found = <<>> THEN "false"
                      ELSE IF requiredPermission = "read" /\ Head(found).permission \in {"read", "write"}
                      THEN "true"
                      ELSE IF requiredPermission = "write" /\ Head(found).permission = "write"
                      THEN "true"
                      ELSE "false"

\* checkProjectPermission: "true", "false", or "throw" (project not found)
checkProjectPermission(store, loggedInUserId, projectOwnerId, projectSlug, requiredPermission) ==
    IF loggedInUserId = <<>> \/ projectOwnerId = <<>> \/ projectSlug = <<>> THEN "false"
    ELSE IF loggedInUserId = projectOwnerId THEN "true"
    ELSE LET roots == ProjectRootIds(store, projectOwnerId, projectSlug)
         IN  IF roots = {} THEN "throw"
             ELSE LET projectRootVfs == store[CHOOSE i \in roots : \A j \in roots : i <= j]
                      IsActor(e) == e.user = loggedInUserId
                      found == SelectSeq(projectRootVfs.sharedWith, IsActor)
                  IN  IF found = <<>> THEN "false"
                      ELSE LET shareEntry == Head(found)
                           IN  IF requiredPermission = "read" /\ shareEntry.permission \in {"read", "write"}
                               THEN "true"
                               ELSE IF requiredPermission = "write" /\ shareEntry.permission = "write"
                               THEN "true"
                               ELSE "false"

----------------------------------------------------------------------------
(* The filesystem surface (workspaceFsController).  Each handler is a      *)
(* function of the store, the host filesystem and the request; it returns  *)
(* the HTTP status and the host filesystem it leaves.                      *)

Resp(status, h) == [status |-> status, host |-> h]

\* the part common to all handlers: the permission check, then the path
\* resolution; "go" with the resolved path, or the status of the refusal
GateAndResolve(store, actor, owner, slug, rel, level) ==
    LET allowed == checkProjectPermission(store, actor, owner, slug, level)
    IN  IF allowed = "throw" THEN [go |-> FALSE, status |-> 500, path |-> <<>>]
        ELSE IF allowed = "false" THEN [go |-> FALSE, status |-> 403, path |-> <<>>]
        ELSE LET r == resolveUserProjectPath(owner, slug, rel)
             IN  IF r.status = "traversal" THEN [go |-> FALSE, status |-> 403, path |-> <<>>]
                 ELSE IF r.status = "error" THEN [go |-> FALSE, status |-> 500, path |-> <<>>]
                 ELSE [go |-> TRUE, status |-> 200, path |-> r.path]

listFiles(store, h, actor, owner, slug, rel) ==
    IF owner = <<>> \/ slug = <<>> THEN Resp(400, h)
    ELSE LET g == GateAndResolve(store, actor, owner, slug, rel, "read")
         IN  IF ~ g.go THEN Resp(g.status, h)
             ELSE IF ~ HostExists(h, g.path) THEN Resp(200, h)
             ELSE IF ~ HostIsDir(h, g.path) THEN Resp(400, h)
             ELSE Resp(200, h)

readFileContent(store, h, actor, owner, slug, rel) ==
    IF owner = <<>> \/ slug = <<>> \/ rel = <<>> THEN Resp(400, h)
    ELSE LET g == GateAndResolve(store, actor, owner, slug, rel, "read")
         IN  IF ~ g.go THEN Resp(g.status, h)
             ELSE IF ~ HostExists(h, g.path) \/ HostIsDir(h, g.path) THEN Resp(404, h)
             ELSE Resp(200, h)

writeFileContent(store, h, actor, owner, slug, rel, content) ==
    IF owner = <<>> \/ slug = <<>> \/ rel = <<>> THEN Resp(400, h)
    ELSE LET g == GateAndResolve(store, actor, owner, slug, rel, "write")
         IN  IF ~ g.go THEN Resp(g.status, h)
             ELSE LET dirPath == ParentOf(g.path)
                      made == IF HostExists(h, dirPath) THEN [ok |-> TRUE, host |-> h]
                              ELSE MkdirRecursive(h, dirPath)
                      written == WriteFileHost(made.host, g.path, content)
                  IN  IF ~ made.ok THEN Resp(500, h)
                      ELSE IF ~ written.ok THEN Resp(500, made.host)
                      ELSE Resp(200, written.host)

createDirectory(store, h, actor, owner, slug, rel) ==
    IF owner = <<>> \/ slug = <<>> \/ rel = <<>> THEN Resp(400, h)
    ELSE LET g == GateAndResolve(store, actor, owner, slug, rel, "write")
         IN  IF ~ g.go THEN Resp(g.status, h)
             ELSE IF HostExists(h, g.path) THEN Resp(400, h)
             ELSE LET made == MkdirRecursive(h, g.path)
                  IN  IF made.ok THEN Resp(201, made.host) ELSE Resp(500, h)

deleteItem(store, h, actor, owner, slug, rel) ==
    IF owner = <<>> \/ slug = <<>> \/ rel = <<>> THEN Resp(400, h)
    ELSE LET g == GateAndResolve(store, actor, owner, slug, rel, "read")
         IN  IF ~ g.go THEN Resp(g.status, h)
             ELSE IF ~ HostExists(h, g.path) THEN Resp(404, h)
             ELSE IF g.path = ProjectRootOnHost(owner, slug) /\ (rel = <<"/">> \/ rel = <<>>)
             THEN Resp(400, h)
             ELSE Resp(200, RmRecursive(h, g.path))

\* String.prototype.includes
Includes(s, sub) == \E i \in 1..(Len(s) - Len(sub) + 1) : SubSeq(s, i, i + Len(sub) - 1) = sub

\* renameItem; the request's query path is present (the handler answers 400
\* without it), oldPath and newName are the body's
renameItem(store, h, actor, owner, slug, oldPath, newName) ==
    IF owner = <<>> \/ slug = <<>> THEN Resp(400, h)
    ELSE LET allowed == checkProjectPermission(store, actor, owner, slug, "read")
         IN  IF allowed = "throw" THEN Resp(500, h)
             ELSE IF allowed = "false" THEN Resp(403, h)
             ELSE IF oldPath = <<>> \/ newName = <<>> THEN Resp(400, h)
             ELSE IF Includes(newName, <<"/">>) \/ Includes(newName, <<"\\">>) \/ Includes(newName, <<".", ".">>)
             THEN Resp(400, h)
             ELSE LET r == resolveUserProjectPath(owner, slug, oldPath)
                  IN  IF r.status = "traversal" THEN Resp(403, h)
                      ELSE IF r.status = "error" THEN Resp(500, h)
                      ELSE IF ~ HostExists(h, r.path) THEN Resp(404, h)
                      ELSE LET fullNewHostPath == PathResolve(ParentOf(r.path), newName)
                               root == ProjectRootOnHost(owner, slug)
                           IN  IF ~ StartsWith(PathString(fullNewHostPath), PathString(root))
                               THEN Resp(403, h)
                               ELSE IF HostExists(h, fullNewHostPath) THEN Resp(400, h)
                               ELSE LET moved == RenameHost(h, r.path, fullNewHostPath)
                                    IN  IF moved.ok THEN Resp(200, moved.host) ELSE Resp(500, h)

\* (a moveItem without the existence check of the target)
moveItemOntoTarget(store, h, actor, owner, slug, oldPath, newPath) ==
    IF owner = <<>> \/ slug = <<>> THEN Resp(400, h)
    ELSE LET allowed == checkProjectPermission(store, actor, owner, slug, "read")
         IN  IF allowed = "throw" THEN Resp(500, h)
             ELSE IF allowed = "false" THEN Resp(403, h)
             ELSE IF oldPath = <<>> \/ newPath = <<>> THEN Resp(400, h)
             ELSE LET ro == resolveUserProjectPath(owner, slug, oldPath)
                      rn == resolveUserProjectPath(owner, slug, newPath)
                  IN  IF ro.status = "traversal" \/ (ro.status = "ok" /\ rn.status = "traversal") THEN Resp(403, h)
                      ELSE IF ro.status = "error" \/ rn.status = "error" THEN Resp(500, h)
                      ELSE IF ~ HostExists(h, ro.path) THEN Resp(404, h)
                      ELSE LET moved == RenameHost(h, ro.path, rn.path)
                           IN  IF moved.ok THEN Resp(200, moved.host) ELSE Resp(500, h)

\* moveItem; the request's query path is present, oldPath and newPath are the body's
moveItem(store, h, actor, owner, slug, oldPath, newPath) ==
    IF owner = <<>> \/ slug = <<>> THEN Resp(400, h)
    ELSE LET allowed == checkProjectPermission(store, actor, owner, slug, "read")
         IN  IF allowed = "throw" THEN Resp(500, h)
             ELSE IF allowed = "false" THEN Resp(403, h)
             ELSE IF oldPath = <<>> \/ newPath = <<>> THEN Resp(400, h)
             ELSE LET ro == resolveUserProjectPath(owner, slug, oldPath)
                      rn == resolveUserProjectPath(owner, slug, newPath)
                  IN  IF ro.status = "traversal" \/ (ro.status = "ok" /\ rn.status = "traversal") THEN Resp(403, h)
                      ELSE IF ro.status = "error" \/ rn.status = "error" THEN Resp(500, h)
                      ELSE IF ~ HostExists(h, ro.path) THEN Resp(404, h)
                      ELSE IF HostExists(h, rn.path) THEN Resp(400, h)
                      ELSE LET newParentDir == ParentOf(rn.path)
                               made == IF HostExists(h, newParentDir) THEN [ok |-> TRUE, host |-> h]
                                       ELSE MkdirRecursive(h, newParentDir)
                               moved == RenameHost(made.host, ro.path, rn.path)
                           IN  IF ~ made.ok THEN Resp(500, h)
                               ELSE IF ~ moved.ok THEN Resp(500, made.host)
                               ELSE Resp(200, moved.host)

----------------------------------------------------------------------------
(* The sync engine (codeExecutionController): pull writes the VFS subtree  *)
(* of a root node to a host directory, push uploads a host directory to    *)
(* the VFS.  vfs is the sequence of all documents ever saved, in the order *)
(* of their creation; the document's id is its index, and a deleted        *)
(* document leaves a tombstone, so that ids are never reused.              *)

Tombstone ==
    [userId |-> <<>>, name |-> <<>>, type |-> "deleted", content |-> "",
     parentId |-> NullId, isTemplate |-> FALSE, sharedWith |-> <<>>, updatedAt |-> 0]

\* the ids of a set in the order in which a query returns them: MongoDB
\* promises no order for an unsorted find / findOne; "asc" is creation
\* order, "desc" its reverse
RECURSIVE SortIds(_, _)
SortIds(S, order) ==
    IF S = {} THEN <<>>
    ELSE LET first == IF order = "asc" THEN CHOOSE i \in S : \A j \in S : i <= j
                      ELSE CHOOSE i \in S : \A j \in S : i >= j
         IN  <<first>> \o SortIds(S \ {first}, order)

\* File.find({ userId, parentId })
FindChildren(store, userId, parentId, order) ==
    SortIds({i \in DOMAIN store : store[i].userId = userId /\ store[i].parentId = parentId}, order)

\* File.findOne({ userId, name, parentId }): the id found, or NullId
FindOne(store, userId, name, parentId, order) ==
    LET found == SortIds({i \in DOMAIN store :
                            /\ store[i].userId = userId
                            /\ store[i].name = name
                            /\ store[i].parentId = parentId}, order)
    IN  IF found = <<>> THEN NullId ELSE Head(found)

\* path.join(dir, name): the name is applied to dir and the result normalised
PathJoin(dir, name) == NormalizeSegs(dir, SplitPath(name))

\* createHostFilesRecursive over the documents that getVfsDescendants read;
\* q is [userId, order, base]; st is [ok, host], ok = FALSE once an fs call
\* has thrown (the exception ends the whole pull)
RECURSIVE createHostFilesRecursive(_, _, _, _, _)
createHostFilesRecursive(store, items, currentHostPath, q, st) ==
    IF items = <<>> \/ ~ st.ok THEN st
    ELSE LET item == store[Head(items)]
             itemHostPath == PathJoin(currentHostPath, item.name)
             next(st2) == createHostFilesRecursive(store, Tail(items), currentHostPath, q, st2)
         IN  IF ~ StartsWith(PathString(itemHostPath), PathString(q.base)) THEN next(st)
             ELSE IF item.type = "folder"
             THEN LET made == IF HostExists(st.host, itemHostPath) THEN st
                              ELSE MkdirRecursive(st.host, itemHostPath)
                      children == FindChildren(store, q.userId, Head(items), q.order)
                  IN  IF made.ok /\ children # <<>>
                      THEN next(createHostFilesRecursive(store, children, itemHostPath, q, made))
                      ELSE next(made)
             ELSE next(WriteFileHost(st.host, itemHostPath, item.content))

\* a pull that mirrors: the host root is emptied before the nodes are written
syncProjectFromVfsToHostMirror(store, h, userId, vfsProjectRootFolderId, projectRootHostPath, order) ==
    LET emptied == RmRecursive(h, projectRootHostPath)
        made == MkdirRecursive(emptied, projectRootHostPath)
    IN  IF ~ made.ok THEN made
        ELSE createHostFilesRecursive(store,
                 FindChildren(store, userId, vfsProjectRootFolderId, order),
                 projectRootHostPath,
                 [userId |-> userId, order |-> order, base |-> projectRootHostPath],
                 made)

\* syncProjectFromVfsToHost: [ok, host]
syncProjectFromVfsToHost(store, h, userId, vfsProjectRootFolderId, projectRootHostPath, order) ==
    LET made == IF HostExists(h, projectRootHostPath) THEN [ok |-> TRUE, host |-> h]
                ELSE MkdirRecursive(h, projectRootHostPath)
    IN  IF ~ made.ok THEN made
        ELSE createHostFilesRecursive(store,
                 FindChildren(store, userId, vfsProjectRootFolderId, order),
                 projectRootHostPath,
                 [userId |-> userId, order |-> order, base |-> projectRootHostPath],
                 made)

\* a one-character-per-element string of the ignore list
PushIgnoreSet ==
    { <<"n", "o", "d", "e", "_", "m", "o", "d", "u", "l", "e", "s">>, <<".", "g", "i", "t">>,
      <<".", "D", "S", "_", "S", "t", "o", "r", "e">>, <<".", "e", "n", "v">>,
      <<".", "v", "s", "c", "o", "d", "e">> }
PycachePrefix == <<"_", "_", "p", "y", "c", "a", "c", "h", "e", "_", "_">>

\* the milliseconds after which push touches the updatedAt of an unchanged file
TOUCH_AFTER_MS == 1000

\* fsPromises.readdir(dir): the names of the entries of dir, as a sequence
RECURSIVE SeqOfSet(_)
SeqOfSet(S) ==
    IF S = {} THEN <<>>
    ELSE LET x == CHOOSE y \in S : TRUE IN <<x>> \o SeqOfSet(S \ {x})

ReadDir(h, dir) == SeqOfSet({p[Len(p)] : p \in {r \in DOMAIN h : r # <<>> /\ ParentOf(r) = dir}})

\* File.deleteOne({ _id }) on the push state
PushDelete(st, id) ==
    [st EXCEPT !.store[id] = Tombstone, !.deleted = @ \cup {id}]

\* new File({...}).save() on the push state; the new id is Len(store) + 1
PushCreate(st, doc) ==
    [st EXCEPT !.store = Append(@, doc), !.created = @ \cup {Len(st.store) + 1}]

\* the update branches of a host file that has a File document
PushUpdateFile(st, id, content, now) ==
    IF st.store[id].content # content
    THEN [st EXCEPT !.store[id].content = content, !.store[id].updatedAt = now,
                    !.saved = @ \cup {id}]
    ELSE IF now - st.store[id].updatedAt > TOUCH_AFTER_MS
    THEN [st EXCEPT !.store[id].updatedAt = now, !.saved = @ \cup {id}]
    ELSE st

\* recursivelyScanHostAndUploadToVFS over the entries of currentHostDir;
\* q is [userId, order, base, host, now]; st is [store, created, deleted, saved]
RECURSIVE recursivelyScanHostAndUploadToVFS(_, _, _, _, _)
recursivelyScanHostAndUploadToVFS(entries, currentHostDir, vfsParentId, q, st) ==
    IF entries = <<>> THEN st
    ELSE LET name == Head(entries)
             hostEntryPath == PathJoin(currentHostDir, name)
             next(st2) == recursivelyScanHostAndUploadToVFS(Tail(entries), currentHostDir, vfsParentId, q, st2)
             found == FindOne(st.store, q.userId, name, vfsParentId, q.order)
             expectedType == IF q.host[hostEntryPath].kind = "dir" THEN "folder" ELSE "file"
             mismatch == found # NullId /\ st.store[found].type # expectedType
             st1 == IF mismatch THEN PushDelete(st, found) ELSE st
             vfsItem == IF mismatch THEN NullId ELSE found
         IN  IF name \in PushIgnoreSet \/ StartsWith(name, PycachePrefix) THEN next(st)
             ELSE IF ~ StartsWith(PathString(hostEntryPath), PathString(q.base)) THEN next(st)
             ELSE IF expectedType = "folder"
             THEN LET st2 == IF vfsItem = NullId
                             THEN PushCreate(st1, FileDoc(q.userId, name, "folder", "", vfsParentId, q.now))
                             ELSE st1
                      id == IF vfsItem = NullId THEN Len(st1.store) + 1 ELSE vfsItem
                  IN  next(recursivelyScanHostAndUploadToVFS(ReadDir(q.host, hostEntryPath), hostEntryPath, id, q, st2))
             ELSE LET content == q.host[hostEntryPath].content
                  IN  IF vfsItem # NullId THEN next(PushUpdateFile(st1, vfsItem, content, q.now))
                      ELSE next(PushCreate(st1, FileDoc(q.userId, name, "file", content, vfsParentId, q.now)))

\* (a push that mirrors: the children of the root node whose names the host
\* root lacks are deleted after the scan)
syncWorkspaceToVfsMirror(store, h, userId, projectRootHostPath, vfsProjectRootFolderId, now, order) ==
    LET st0 == [store |-> store, created |-> {}, deleted |-> {}, saved |-> {}]
        entries == ReadDir(h, projectRootHostPath)
        gone == {i \in DOMAIN store :
                    /\ store[i].userId = userId
                    /\ store[i].parentId = vfsProjectRootFolderId
                    /\ \A k \in DOMAIN entries : entries[k] # store[i].name}
        st == recursivelyScanHostAndUploadToVFS(entries, projectRootHostPath,
                  vfsProjectRootFolderId,
                  [userId |-> userId, order |-> order, base |-> projectRootHostPath, host |-> h, now |-> now],
                  st0)
    IN  IF ~ HostExists(h, projectRootHostPath) THEN [ok |-> TRUE] @@ st0
        ELSE IF ~ HostIsDir(h, projectRootHostPath) THEN [ok |-> FALSE] @@ st0
        ELSE [ok |-> TRUE] @@
             [st EXCEPT !.store = [i \in DOMAIN st.store |-> IF i \in gone THEN Tombstone ELSE st.store[i]],
                        !.deleted = @ \cup gone]

\* syncWorkspaceToVfs: [ok, store, created, deleted, saved]; a host root
\* that is missing is logged and nothing is done, one that is a file makes
\* readdir throw
syncWorkspaceToVfs(store, h, userId, projectRootHostPath, vfsProjectRootFolderId, now, order) ==
    LET st0 == [store |-> store, created |-> {}, deleted |-> {}, saved |-> {}]
    IN  IF ~ HostExists(h, projectRootHostPath) THEN [ok |-> TRUE] @@ st0
        ELSE IF ~ HostIsDir(h, projectRootHostPath) THEN [ok |-> FALSE] @@ st0
        ELSE [ok |-> TRUE] @@
             recursivelyScanHostAndUploadToVFS(ReadDir(h, projectRootHostPath), projectRootHostPath,
                 vfsProjectRootFolderId,
                 [userId |-> userId, order |-> order, base |-> projectRootHostPath, host |-> h, now |-> now],
                 st0)

\* shareVfsProject (vfsController): the owner adds or updates the entry of
\* the user to share with; the status and the store it leaves
shareVfsProject(store, projectId, authenticatedUserId, userToShareWith, permission) ==
    IF permission \notin {"read", "write"} THEN [status |-> 400, store |-> store]
    ELSE IF projectId \notin DOMAIN store THEN [status |-> 404, store |-> store]
    ELSE LET project == store[projectId]
             at == {i \in 1..Len(project.sharedWith) : project.sharedWith[i].user = userToShareWith}
         IN  IF project.type # "folder" \/ project.parentId # NullId THEN [status |-> 400, store |-> store]
             ELSE IF project.userId # authenticatedUserId THEN [status |-> 403, store |-> store]
             ELSE IF userToShareWith = authenticatedUserId THEN [status |-> 400, store |-> store]
             ELSE IF at # {}
             THEN LET i == CHOOSE k \in at : \A l \in at : k <= l
                  IN  IF project.sharedWith[i].permission # permission
                      THEN [status |-> 200,
                            store |-> [store EXCEPT ![projectId].sharedWith[i].permission = permission]]
                      ELSE [status |-> 400, store |-> store]
             ELSE [status |-> 200,
                   store |-> [store EXCEPT ![projectId].sharedWith =
                                Append(@, [user |-> userToShareWith, permission |-> permission])]]

\* unshareVfsProject (vfsController)
unshareVfsProject(store, projectId, authenticatedUserId, targetUserId) ==
    IF projectId \notin DOMAIN store THEN [status |-> 404, store |-> store]
    ELSE LET project == store[projectId]
             at == {i \in 1..Len(project.sharedWith) : project.sharedWith[i].user = targetUserId}
         IN  IF project.type # "folder" \/ project.parentId # NullId THEN [status |-> 400, store |-> store]
             ELSE IF project.userId # authenticatedUserId THEN [status |-> 403, store |-> store]
             ELSE IF at = {} THEN [status |-> 404, store |-> store]
             ELSE LET shareIndex == CHOOSE k \in at : \A l \in at : k <= l
                  IN  [status |-> 200,
                       store |-> [store EXCEPT ![projectId].sharedWith =
                                    SubSeq(@, 1, shareIndex - 1) \o SubSeq(@, shareIndex + 1, Len(@))]]

\* triggerVfsToHostSync: the 'write' check for (owner, slug), then the pull
\* of the subtree of the vfsProjectId of the request body into the host
\* root of (owner, slug); [status, host]
triggerVfsToHostSync(store, h, actor, owner, slug, vfsProjectId, order) ==
    IF owner = <<>> \/ slug = <<>> THEN [status |-> 400, host |-> h]
    ELSE LET allowed == checkProjectPermission(store, actor, owner, slug, "write")
         IN  IF allowed = "throw" THEN [status |-> 500, host |-> h]
             ELSE IF allowed = "false" THEN [status |-> 403, host |-> h]
             ELSE LET r == syncProjectFromVfsToHost(store, h, owner, vfsProjectId,
                                                    ProjectRootOnHost(owner, slug), order)
                  IN  [status |-> IF r.ok THEN 200 ELSE 500, host |-> r.host]

\* triggerHostToVfsSync: the 'write' check for (owner, slug), then the push
\* of the host root of (owner, slug) under the vfsProjectId of the request
\* body; [status, store]
triggerHostToVfsSync(store, h, actor, owner, slug, vfsProjectId, now, order) ==
    IF owner = <<>> \/ slug = <<>> THEN [status |-> 400, store |-> store]
    ELSE LET allowed == checkProjectPermission(store, actor, owner, slug, "write")
         IN  IF allowed = "throw" THEN [status |-> 500, store |-> store]
             ELSE IF allowed = "false" THEN [status |-> 403, store |-> store]
             ELSE LET r == syncWorkspaceToVfs(store, h, owner, ProjectRootOnHost(owner, slug),
                                              vfsProjectId, now, order)
                  IN  [status |-> IF r.ok THEN 200 ELSE 500, store |-> r.store]

----------------------------------------------------------------------------
(* The session manager (dockerController) and the terminal socket handler. *)
(* An async function runs from one await to the next without interruption; *)
(* a task is a call in flight, its pc the await that it is suspended at,   *)
(* and a step is the completion of that await together with the code up to *)
(* the next one.                                                           *)

\* the keys `${userId}-${terminalId}` and the host directory names: project
\* d, and the owner's root workspace projects/<userId>/<userId>
\* (two sockets of user u; SessionKeys is the key whose calls race in
\* SpecSession, the second key is there for the shutdown sweep)
RegistryKeys == { <<<<"u">>, <<"s">>>>, <<<<"u">>, <<"r">>>> }
SessionKeys == { <<<<"u">>, <<"s">>>> }
SessionSlugs == { <<"d">>, <<"u">> }

NoSession == [container |-> 0, projectSlug |-> <<>>, vfsProjectRootId |-> NullId]
NoContainer ==
    [state |-> "none", slug |-> <<>>, pulled |-> FALSE, swept |-> FALSE, removeFailed |-> FALSE]
NoPty == [containerId |-> 0, cols |-> 0, ptyProcess |-> 0]
PtyCols == {80, 120}
NoEnsure == [container |-> 0, race |-> FALSE, error |-> FALSE]
IdleTask ==
    [kind |-> "idle", pc |-> "idle", key |-> <<>>, slug |-> <<>>, vfsId |-> NullId,
     cont |-> 0, session |-> NoSession, pushes |-> 0, pushedSlug |-> <<>>, race |-> FALSE]

\* resetContainerTimer: clearTimeout of the timer of the key, and a new one
resetContainerTimer(timers, key) == [timers EXCEPT ![key] = "armed"]

\* createDockerContainer up to its first await: the registry is read, and
\* the container found in it is inspected
createDockerContainer(t, registry) ==
    IF registry[t.key] # NoSession
    THEN [t EXCEPT !.pc = "c_inspect", !.cont = registry[t.key].container]
    ELSE [t EXCEPT !.pc = "c_prepare"]

\* the vfsProjectRootId that initialize_pty finds for a directory name
VfsRootIdOf(store, userId, slug) ==
    IF slug # userId /\ ProjectRootIds(store, userId, slug) # {}
    THEN CHOOSE i \in ProjectRootIds(store, userId, slug) : TRUE
    ELSE NullId

SessionIdle ==
    /\ activeContainers = [k \in RegistryKeys |-> NoSession]
    /\ containerTimers = [k \in RegistryKeys |-> "none"]
    /\ activePtySessions = [k \in RegistryKeys |-> NoPty]
    /\ containers = <<>>
    /\ tasks = <<>>
    /\ pulled = {}
    /\ ensured = NoEnsure
    /\ spawned = 0
    /\ ptyProcesses = <<>>
    /\ disconnected = {}

----------------------------------------------------------------------------
(* SpecPath: resolveUserProjectPath called with every owner, slug and      *)
(* relative path of the bounded sets.                                      *)

PathOwners == { <<"u">> }
PathSlugs == { <<"d">>, <<"d", "x">>, <<".", ".">>, <<".", ".", "/", "x">> }
RelPaths == StringsUpTo(MaxPathLen)

NoCall == [userId |-> <<>>, projectSlug |-> <<>>, rel |-> <<>>, status |-> "none", path |-> <<>>]

NoRequest ==
    [op |-> "none", actor |-> <<>>, status |-> 0, changed |-> FALSE, moving |-> <<>>,
     met |-> FALSE, raced |-> FALSE, atRoot |-> FALSE]

SyncIdle ==
    /\ clock = 0
    /\ syncLog = <<>>

InitPath ==
    /\ pathCall \in { [NoCall EXCEPT !.userId = userId, !.projectSlug = projectSlug, !.rel = rel] :
                         userId \in PathOwners, projectSlug \in PathSlugs, rel \in RelPaths }
    /\ vfs = <<>>
    /\ host = <<>>
    /\ fsLast = NoRequest
    /\ SyncIdle
    /\ SessionIdle

\* the call with the arguments drawn
ResolveCall ==
    /\ pathCall.status = "none"
    /\ pathCall' = [userId |-> pathCall.userId, projectSlug |-> pathCall.projectSlug,
                    rel |-> pathCall.rel] @@
                   resolveUserProjectPath(pathCall.userId, pathCall.projectSlug, pathCall.rel)
    /\ UNCHANGED PathRest

NextPath == ResolveCall

vars == <<pathCall, vfs, host, fsLast, clock, syncLog, sessionVars>>

SpecPath == InitPath /\ [][NextPath]_vars

\* C1 (Containment): every call of resolveUserProjectPath either fails or
\* returns the project's host root or a path-segment descendant of it.
C1_Containment ==
    pathCall.status = "ok" =>
        IsWithin(ProjectRootOnHost(pathCall.userId, pathCall.projectSlug), pathCall.path)

\* C35 (owner boundary): whatever the project slug, ".." and separators
\* included, the path that resolveUserProjectPath returns for an owner is
\* the owner's directory baseDir/ownerId or lies below it.
C35_OwnerBoundary ==
    pathCall.status = "ok" =>
        IsWithin(PathResolve(BASE_PROJECT_DIR, pathCall.userId), pathCall.path)

----------------------------------------------------------------------------
(* SpecFs: the filesystem surface over the working copy of project "d" of  *)
(* owner "u", with a second user "v" the owner may share the project with. *)

OwnerU == <<"u">>
UserV == <<"v">>
SlugD == <<"d">>
FsActors == {OwnerU, UserV}
FsProjectId == 1
FsRoot == ProjectRootOnHost(OwnerU, SlugD)

\* the request paths: a, b and a/b
FsRelPaths == { <<"a">>, <<"b">>, <<"a", "/", "b">> }
\* the request paths that resolve to the project root: "", "/", "." and a/..
RootRelPaths == { <<>>, <<"/">>, <<".">>, <<"a", "/", ".", ".">> }
FsNames == { <<"b">> }
FsContents == {"x", "y"}

\* the working copy is explored to this depth below the project root
MaxFsDepth == 2

InitFs ==
    /\ pathCall = NoCall
    /\ vfs = (FsProjectId :> FileDoc(OwnerU, SlugD, "folder", "", NullId, 0))
    /\ host = (<<Head(BASE_PROJECT_DIR), OwnerU>> :> DirEntry) @@ (FsRoot :> DirEntry)
              @@ (Append(FsRoot, <<"a">>) :> FileEntry("x"))
    /\ fsLast = NoRequest
    /\ SyncIdle
    /\ SessionIdle

\* the request is answered; met says that it was a createDirectory, renameItem
\* or moveItem of a permitted caller that found an entry at its target
AnswerMet(op, actor, rel, r, met) ==
    /\ \A q \in DOMAIN r.host : Len(q) <= Len(FsRoot) + MaxFsDepth
    /\ host' = r.host
    /\ fsLast' = [op |-> op, actor |-> actor, status |-> r.status, changed |-> r.host # host,
                   moving |-> fsLast.moving, met |-> met, raced |-> FALSE,
                   atRoot |-> resolveUserProjectPath(OwnerU, SlugD, rel).path = FsRoot]
    /\ UNCHANGED <<vfs, FsRest>>

Answer(op, actor, rel, r) == AnswerMet(op, actor, rel, r, FALSE)

ShareProject(target, permission) ==
    /\ vfs' = shareVfsProject(vfs, FsProjectId, OwnerU, target, permission).store
    /\ fsLast' = [NoRequest EXCEPT !.moving = fsLast.moving]
    /\ UNCHANGED <<host, FsRest>>

UnshareProject(target) ==
    /\ vfs' = unshareVfsProject(vfs, FsProjectId, OwnerU, target).store
    /\ fsLast' = [NoRequest EXCEPT !.moving = fsLast.moving]
    /\ UNCHANGED <<host, FsRest>>

ListFiles(actor, rel) ==
    Answer("listFiles", actor, rel, listFiles(vfs, host, actor, OwnerU, SlugD, rel))

ReadFileContent(actor, rel) ==
    Answer("readFileContent", actor, rel, readFileContent(vfs, host, actor, OwnerU, SlugD, rel))

WriteFileContent(actor, rel, content) ==
    Answer("writeFileContent", actor, rel, writeFileContent(vfs, host, actor, OwnerU, SlugD, rel, content))

\* the host path of a request path of project d
FsPath(rel) == resolveUserProjectPath(OwnerU, SlugD, rel).path

CreateDirectory(actor, rel) ==
    AnswerMet("createDirectory", actor, rel, createDirectory(vfs, host, actor, OwnerU, SlugD, rel),
              /\ checkProjectPermission(vfs, actor, OwnerU, SlugD, "write") = "true"
              /\ HostExists(host, FsPath(rel)))

DeleteItem(actor, rel) ==
    Answer("deleteItem", actor, rel, deleteItem(vfs, host, actor, OwnerU, SlugD, rel))

RenameItem(actor, rel, newName) ==
    AnswerMet("renameItem", actor, rel, renameItem(vfs, host, actor, OwnerU, SlugD, rel, newName),
              /\ checkProjectPermission(vfs, actor, OwnerU, SlugD, "read") = "true"
              /\ HostExists(host, FsPath(rel))
              /\ HostExists(host, PathResolve(ParentOf(FsPath(rel)), newName)))

MoveItem(actor, rel, newPath) ==
    AnswerMet("moveItem", actor, rel, moveItem(vfs, host, actor, OwnerU, SlugD, rel, newPath),
              /\ checkProjectPermission(vfs, actor, OwnerU, SlugD, "read") = "true"
              /\ HostExists(host, FsPath(rel))
              /\ HostExists(host, FsPath(newPath)))

\* moveItem up to the awaits of mkdir and chmod of the target's parent
\* directory, which it makes after both existence checks have passed; the
\* rename follows in MoveItemResumed, and other requests are served in
\* between
MoveItemSuspended(actor, rel, newPath) ==
    LET ro == resolveUserProjectPath(OwnerU, SlugD, rel)
        rn == resolveUserProjectPath(OwnerU, SlugD, newPath)
        made == MkdirRecursive(host, ParentOf(rn.path))
    IN  /\ fsLast.moving = <<>>
        /\ checkProjectPermission(vfs, actor, OwnerU, SlugD, "read") = "true"
        /\ ro.status = "ok" /\ rn.status = "ok"
        /\ HostExists(host, ro.path)
        /\ ~ HostExists(host, rn.path)
        /\ ~ HostExists(host, ParentOf(rn.path))
        /\ made.ok
        /\ \A q \in DOMAIN made.host : Len(q) <= Len(FsRoot) + MaxFsDepth
        /\ host' = made.host
        /\ fsLast' = [fsLast EXCEPT !.moving = <<actor, ro.path, rn.path>>]
        /\ UNCHANGED <<vfs, FsRest>>

\* the rename of the suspended moveItem, and its response
MoveItemResumed ==
    LET moved == RenameHost(host, fsLast.moving[2], fsLast.moving[3])
    IN  /\ fsLast.moving # <<>>
        /\ host' = moved.host
        /\ fsLast' = [op |-> "moveItem", actor |-> fsLast.moving[1],
                       status |-> IF moved.ok THEN 200 ELSE 500,
                       changed |-> moved.host # host, moving |-> <<>>,
                       met |-> HostExists(host, fsLast.moving[3]), raced |-> TRUE,
                       atRoot |-> FALSE]
        /\ UNCHANGED <<vfs, FsRest>>

NextFs ==
    \/ \E permission \in {"read", "write"} : ShareProject(UserV, permission)
    \/ UnshareProject(UserV)
    \/ \E actor \in FsActors, rel \in FsRelPaths : ListFiles(actor, rel)
    \/ \E actor \in FsActors, rel \in FsRelPaths : ReadFileContent(actor, rel)
    \/ \E actor \in FsActors, rel \in FsRelPaths, content \in FsContents : WriteFileContent(actor, rel, content)
    \/ \E actor \in FsActors, rel \in FsRelPaths : CreateDirectory(actor, rel)
    \/ \E actor \in FsActors, rel \in FsRelPaths \cup RootRelPaths : DeleteItem(actor, rel)
    \/ \E actor \in FsActors, rel \in FsRelPaths, newName \in FsNames : RenameItem(actor, rel, newName)
    \/ \E actor \in FsActors, rel \in FsRelPaths, newPath \in FsRelPaths : MoveItem(actor, rel, newPath)
    \/ \E actor \in FsActors, rel \in FsRelPaths, newPath \in FsRelPaths :
           MoveItemSuspended(actor, rel, newPath)
    \/ MoveItemResumed

SpecFs == InitFs /\ [][NextFs]_vars

WriteClassOps == {"writeFileContent", "createDirectory", "deleteItem", "renameItem", "moveItem"}
ReadClassOps == {"listFiles", "readFileContent"}

\* C4 (write operations need Write permission): a write-class request of a
\* non-owner without a Write entry is answered 403 and leaves the working
\* copy unchanged; a read-class request of an actor with a Read entry is not
\* refused.
C4_WriteNeedsWritePermission ==
    /\ (/\ fsLast.op \in WriteClassOps
        /\ fsLast.actor # OwnerU
        /\ checkProjectPermission(vfs, fsLast.actor, OwnerU, SlugD, "write") = "false")
       => (fsLast.status = 403 /\ ~ fsLast.changed)
    /\ (/\ fsLast.op \in ReadClassOps
        /\ checkProjectPermission(vfs, fsLast.actor, OwnerU, SlugD, "read") = "true")
       => fsLast.status # 403

\* the arguments of the permission check: actors u, v and w, owners u and
\* v, the project d and a slug e that names no project
PermArgs ==
    { <<actor, owner, slug>> : actor \in {OwnerU, UserV, <<"w">>}, owner \in {OwnerU, UserV},
                               slug \in {SlugD, <<"e">>} }

\* C22 (permission monotonicity): for all actors, owners and slugs and every
\* state of the share list, a check that is true for Write is true for Read.
C22_PermissionMonotonicity ==
    \A a \in PermArgs :
        checkProjectPermission(vfs, a[1], a[2], a[3], "write") = "true"
        => checkProjectPermission(vfs, a[1], a[2], a[3], "read") = "true"

\* a non-owner with a Write entry has written a file
C22_Witness ==
    /\ fsLast.op = "writeFileContent" /\ fsLast.actor = UserV /\ fsLast.status = 200
    /\ checkProjectPermission(vfs, UserV, OwnerU, SlugD, "write") = "true"
    /\ checkProjectPermission(vfs, UserV, OwnerU, SlugD, "read") = "true"

\* C23 (the decision of the permission gate): the check is true when the
\* actor is the owner, whether or not the project exists; otherwise it
\* throws when the owner has no root folder of that name that is not a
\* template; otherwise it is false when the share list has no entry of the
\* actor; otherwise it is true exactly when the entry says Write, or says
\* Read and Read is asked for.
C23_PermissionDecision ==
    \A a \in PermArgs, level \in {"read", "write"} :
        LET actor == a[1]
            owner == a[2]
            slug == a[3]
            got == checkProjectPermission(vfs, actor, owner, slug, level)
            roots == {i \in DOMAIN vfs :
                        /\ vfs[i].userId = owner /\ vfs[i].name = slug
                        /\ vfs[i].parentId = NullId /\ vfs[i].type = "folder"
                        /\ ~ vfs[i].isTemplate}
            entries == UNION {{vfs[i].sharedWith[k] : k \in {n \in 1..Len(vfs[i].sharedWith) :
                                                              vfs[i].sharedWith[n].user = actor}} :
                              i \in roots}
        IN  IF actor = owner THEN got = "true"
            ELSE IF roots = {} THEN got = "throw"
            ELSE IF entries = {} THEN got = "false"
            ELSE /\ got \in {"true", "false"}
                 /\ got = "true" <=> \E e \in entries :
                                        \/ e.permission = "write"
                                        \/ e.permission = "read" /\ level = "read"

\* a non-owner with a Read entry has read a file and is refused for Write
C23_Witness ==
    /\ fsLast.op = "readFileContent" /\ fsLast.actor = UserV /\ fsLast.status = 200
    /\ checkProjectPermission(vfs, UserV, OwnerU, SlugD, "read") = "true"
    /\ checkProjectPermission(vfs, UserV, OwnerU, SlugD, "write") = "false"
    /\ checkProjectPermission(vfs, UserV, OwnerU, <<"e">>, "read") = "throw"

C36_RootNeverDeleted ==
    (fsLast.op = "deleteItem" /\ fsLast.atRoot)
    => (fsLast.status # 200 /\ ~ fsLast.changed)

\* C24 (revocation takes effect at once): a filesystem request of a
\* non-owner that is answered when the share list holds no entry of the
\* actor (never shared, or removed by unshareVfsProject) is denied, and a
\* write-class request that is answered when the entry says Read (never
\* more, or downgraded from Write) is denied; a denied request leaves the
\* working copy unchanged.
C24_RevocationAtOnce ==
    LET entries == {k \in 1..Len(vfs[FsProjectId].sharedWith) :
                        vfs[FsProjectId].sharedWith[k].user = fsLast.actor}
        denied == fsLast.status = 403 /\ ~ fsLast.changed
    IN  (fsLast.op # "none" /\ fsLast.actor # OwnerU)
        => /\ entries = {} => denied
           /\ (/\ fsLast.op \in WriteClassOps
               /\ \A k \in entries : vfs[FsProjectId].sharedWith[k].permission = "read")
              => denied


----------------------------------------------------------------------------
(* SpecSync: pulls and pushes of the project d of owner u, from every      *)
(* store and every host directory of the bounded sets, with host edits and *)
(* the passing of time in between.                                         *)

MaxVfsNodes == 2
MaxSyncOps == 2
MaxTicks == 1

\* the names of the documents: a, b, "../dx", which path.join resolves to
\* the sibling dx of the project root d, and .env of the push ignore list
SyncNames == { <<"a">>, <<"b">>, <<".", ".", "/", "d", "x">>, <<".", "e", "n", "v">> }
SyncOrders == {"asc", "desc"}

\* the stores of the project root and at most n more documents of owner u,
\* each under a folder of the store; File.create checks no name
RECURSIVE SyncStores(_)
SyncStores(n) ==
    IF n = 0 THEN { <<FileDoc(OwnerU, SlugD, "folder", "", NullId, 0)>> }
    ELSE LET smaller == SyncStores(n - 1)
         IN  smaller \cup UNION {
                 { Append(s, FileDoc(OwnerU, name, k[1], k[2], parentId, 0)) :
                     name \in SyncNames,
                     k \in { <<"folder", "">> } \cup { <<"file", c>> : c \in FsContents },
                     parentId \in {i \in DOMAIN s : s[i].type = "folder"} } :
                 s \in smaller }

HostOf(entries) == [q \in {e[1] : e \in entries} |-> (CHOOSE e \in entries : e[1] = q)[2]]

\* the host directories: the project root missing, or present with a
\* (file or directory) and b (file) in it or not, or with a and .env
SyncHosts ==
    LET pa == Append(FsRoot, <<"a">>)
        pb == Append(FsRoot, <<"b">>)
        pe == Append(FsRoot, <<".", "e", "n", "v">>)
        up == { <<ParentOf(FsRoot), DirEntry>> }
        As == { {}, { <<pa, FileEntry("x")>> }, { <<pa, FileEntry("y")>> }, { <<pa, DirEntry>> },
                { <<pa, DirEntry>>, <<Append(pa, <<"b">>), FileEntry("x")>> } }
        Bs == { {}, { <<pb, FileEntry("y")>> } }
    IN  { HostOf(up) } \cup { HostOf(up \cup { <<FsRoot, DirEntry>> } \cup A \cup B) : A \in As, B \in Bs }
        \cup { HostOf(up \cup { <<FsRoot, DirEntry>>, <<pa, FileEntry("x")>>, <<pe, FileEntry("y")>> }) }

InitSync ==
    /\ pathCall = NoCall
    /\ fsLast = NoRequest
    /\ vfs \in SyncStores(MaxVfsNodes)
    /\ host \in SyncHosts
    /\ SyncIdle
    /\ SessionIdle

\* one more entry of the log: the operation, whether it returned without
\* an exception, what it did to the store, and the state it started from
Logged(op, ok, created, deleted, saved) ==
    /\ Len(syncLog) < MaxSyncOps
    /\ syncLog' = Append(syncLog,
           [op |-> op, ok |-> ok, created |-> created, deleted |-> deleted, saved |-> saved,
            vfsBefore |-> vfs, hostBefore |-> host])

\* pull of the project, as initialize_pty and triggerVfsToHostSync run it
Pull(order) ==
    LET r == syncProjectFromVfsToHost(vfs, host, OwnerU, FsProjectId, FsRoot, order)
    IN  /\ host' = r.host
        /\ Logged("pull", r.ok, {}, {}, {})
        /\ UNCHANGED <<vfs, clock, SyncRest>>

\* push of the project, as teardown and triggerHostToVfsSync run it
Push(order) ==
    LET r == syncWorkspaceToVfs(vfs, host, OwnerU, FsRoot, FsProjectId, clock, order)
    IN  /\ vfs' = r.store
        /\ Logged("push", r.ok, r.created, r.deleted, r.saved)
        /\ UNCHANGED <<host, clock, SyncRest>>

\* the owner writes a file of the working copy
EditHostFile(rel, content) ==
    LET r == writeFileContent(vfs, host, OwnerU, OwnerU, SlugD, rel, content)
    IN  /\ host' = r.host
        /\ Logged("edit", r.status = 200, {}, {}, {})
        /\ UNCHANGED <<vfs, clock, SyncRest>>

\* time passes
Tick(ms) ==
    /\ clock + ms <= MaxTicks * (TOUCH_AFTER_MS + 1)
    /\ clock' = clock + ms
    /\ UNCHANGED <<vfs, host, syncLog, SyncRest>>

NextSync ==
    \/ \E order \in SyncOrders : Pull(order)
    \/ \E order \in SyncOrders : Push(order)
    \/ \E content \in FsContents : EditHostFile(<<"a">>, content)
    \/ \E ms \in {TOUCH_AFTER_MS, TOUCH_AFTER_MS + 1} : Tick(ms)

SpecSync == InitSync /\ [][NextSync]_vars

\* the last and the last but one operation of the log
LastOp == syncLog[Len(syncLog)]
PrevOp == syncLog[Len(syncLog) - 1]

\* the node is the root or lies below it by its chain of parentIds
RECURSIVE ReachesRoot(_, _, _)
ReachesRoot(store, id, rootId) ==
    \/ id = rootId
    \/ /\ id # NullId
       /\ store[id].type # "deleted"
       /\ ReachesRoot(store, store[id].parentId, rootId)

\* the File nodes of the project
ProjectFiles(store) ==
    {i \in DOMAIN store : store[i].type = "file" /\ ReachesRoot(store, i, FsProjectId)}

\* the host path that corresponds to a node: the names from the root down
RECURSIVE HostPathOf(_, _)
HostPathOf(store, id) ==
    IF id = FsProjectId THEN FsRoot
    ELSE PathJoin(HostPathOf(store, store[id].parentId), store[id].name)

\* C6 (push idempotence): of two consecutive pushes with no host change in
\* between, whatever time has passed, the second creates, deletes and saves
\* no node.
C6_PushIdempotence ==
    (/\ Len(syncLog) >= 2
     /\ LastOp.op = "push" /\ LastOp.ok
     /\ PrevOp.op = "push" /\ PrevOp.ok)
    => (/\ LastOp.created = {} /\ LastOp.deleted = {} /\ LastOp.saved = {}
        /\ vfs = LastOp.vfsBefore)

\* C7 (pull fidelity): after a pull that returned, every File node of the
\* project has a host file at its path with the node's content.
C7_PullFidelity ==
    (/\ Len(syncLog) >= 1
     /\ LastOp.op = "pull" /\ LastOp.ok)
    => \A i \in ProjectFiles(vfs) :
           /\ HostIsFile(host, HostPathOf(vfs, i))
           /\ host[HostPathOf(vfs, i)].content = vfs[i].content

\* C8 (round trip): a push right after a pull that returned leaves the
\* content of every File node of the project as it was before the pull and
\* creates and deletes no node.
C8_RoundTrip ==
    (/\ Len(syncLog) >= 2
     /\ LastOp.op = "push" /\ LastOp.ok
     /\ PrevOp.op = "pull" /\ PrevOp.ok)
    => (/\ LastOp.created = {} /\ LastOp.deleted = {}
        /\ \A i \in ProjectFiles(PrevOp.vfsBefore) :
               vfs[i].type = "file" /\ vfs[i].content = PrevOp.vfsBefore[i].content)

\* the File nodes of the store that the host path corresponds to
MatchingFiles(store, p) == {i \in ProjectFiles(store) : HostPathOf(store, i) = p}

\* C9 (in-place update): a push sets the content of the File node that
\* matches a host file to the host file's content and keeps the node; the
\* nodes it creates have a name that no other node under their parent has.
C9_InPlaceUpdate ==
    (/\ Len(syncLog) >= 1
     /\ LastOp.op = "push" /\ LastOp.ok)
    => (/\ \A p \in DOMAIN host :
             (/\ HostIsFile(host, p)
              /\ Cardinality(MatchingFiles(LastOp.vfsBefore, p)) = 1)
             => \A i \in MatchingFiles(LastOp.vfsBefore, p) :
                    /\ vfs[i].type = "file"
                    /\ vfs[i].content = host[p].content
                    /\ vfs[i].parentId = LastOp.vfsBefore[i].parentId
                    /\ ~ \E j \in LastOp.created :
                           vfs[j].name = vfs[i].name /\ vfs[j].parentId = vfs[i].parentId
        /\ \A j \in LastOp.created :
             ~ \E k \in DOMAIN vfs :
                   /\ k # j
                   /\ vfs[k].type # "deleted"
                   /\ vfs[k].name = vfs[j].name
                   /\ vfs[k].parentId = vfs[j].parentId)

\* the host paths that differ from what they were before the last operation
HostChanged ==
    {p \in DOMAIN host : p \notin DOMAIN LastOp.hostBefore \/ host[p] # LastOp.hostBefore[p]}

\* C19 (pull stays inside the host root): whatever names the nodes carry, a
\* pull creates no directory and writes no file at a host path that is not
\* the project root on the host or a descendant of it, segment by segment.
C19_PullStaysInsideRoot ==
    (/\ Len(syncLog) >= 1
     /\ LastOp.op = "pull")
    => \A p \in HostChanged : IsWithin(FsRoot, p)

\* the File nodes directly under the project root whose own write cannot
\* fail: the path is inside the root, no directory is in its place on the
\* host and no other node of the parent has the name
GoodEntries(store, h) ==
    {i \in DOMAIN store :
        /\ store[i].type = "file"
        /\ store[i].userId = OwnerU
        /\ store[i].parentId = FsProjectId
        /\ IsWithin(FsRoot, PathJoin(FsRoot, store[i].name))
        /\ ~ HostIsDir(h, PathJoin(FsRoot, store[i].name))
        /\ \A j \in DOMAIN store :
               (j # i /\ store[j].parentId = FsProjectId) => store[j].name # store[i].name}

\* C20 (per-entry failure containment): whether or not another entry fails
\* during a pull, every entry whose own write cannot fail is still
\* processed: its host file exists afterwards with the node's content.
C20_PerEntryContainment ==
    (/\ Len(syncLog) >= 1
     /\ LastOp.op = "pull")
    => \A i \in GoodEntries(LastOp.vfsBefore, LastOp.hostBefore) :
           /\ HostIsFile(host, PathJoin(FsRoot, vfs[i].name))
           /\ host[PathJoin(FsRoot, vfs[i].name)].content = vfs[i].content

\* C21 (kind mismatch is resolved by replacement of the whole subtree):
\* the node of the other kind is deleted with all of its descendants, so
\* after a push no node remains whose parentId refers to a deleted node.
C21_MismatchReplacesSubtree ==
    (/\ Len(syncLog) >= 1
     /\ LastOp.op = "push")
    => \A i \in DOMAIN vfs :
           (vfs[i].type # "deleted" /\ vfs[i].parentId # NullId)
           => vfs[vfs[i].parentId].type # "deleted"

\* the host paths that correspond to the nodes of the project
CounterpartPaths(store) ==
    {HostPathOf(store, i) :
        i \in {j \in DOMAIN store : /\ store[j].type # "deleted"
                                    /\ j # FsProjectId
                                    /\ ReachesRoot(store, j, FsProjectId)}}

\* C25 (pull is additive): a pull deletes no host file or directory, every
\* host entry that existed before it and has no VFS counterpart is there
\* afterwards with the same content, and the host root directory exists
\* afterwards also when it was missing.
C25_PullIsAdditive ==
    (/\ Len(syncLog) >= 1
     /\ LastOp.op = "pull")
    => /\ DOMAIN LastOp.hostBefore \subseteq DOMAIN host
       /\ \A p \in DOMAIN LastOp.hostBefore :
              /\ host[p].kind = LastOp.hostBefore[p].kind
              /\ p \notin CounterpartPaths(LastOp.vfsBefore) => host[p] = LastOp.hostBefore[p]
       /\ HostIsDir(host, FsRoot)

\* a pull has written a node next to a host file that has no counterpart
C25_Witness ==
    /\ Len(syncLog) >= 1
    /\ LastOp.op = "pull" /\ LastOp.ok
    /\ \E p \in HostChanged : IsWithin(FsRoot, p)
    /\ \E p \in DOMAIN LastOp.hostBefore :
           /\ HostIsFile(host, p)
           /\ IsWithin(FsRoot, p)
           /\ p \notin CounterpartPaths(LastOp.vfsBefore)


\* C38 (push does not mirror deletions): a push deletes a node only when
\* the host entry at the node's path is of the other kind; a node of the
\* store whose path is not on the host, and every node whose name is in
\* the ignore list of push, is the same document after the push.
C38_PushDoesNotMirrorDeletions ==
    (Len(syncLog) >= 1 /\ LastOp.op = "push") =>
        LET before == LastOp.vfsBefore
        IN  /\ \A id \in LastOp.deleted :
                  /\ ReachesRoot(before, id, FsProjectId)
                  /\ HostPathOf(before, id) \in DOMAIN host
                  /\ (before[id].type = "folder") # (host[HostPathOf(before, id)].kind = "dir")
            /\ \A id \in DOMAIN before \ {FsProjectId} :
                  (\/ ~ ReachesRoot(before, id, FsProjectId)
                   \/ HostPathOf(before, id) \notin DOMAIN host
                   \/ before[id].name \in PushIgnoreSet)
                  => vfs[id] = before[id]

\* a push has run over a store with a node b that the host directory
\* lacks and a folder node .env where the host has a file .env: both nodes
\* are there as before
C38_Witness ==
    /\ Len(syncLog) >= 1
    /\ LastOp.op = "push" /\ LastOp.ok
    /\ HostIsDir(host, FsRoot)
    /\ \E id \in DOMAIN LastOp.vfsBefore :
           /\ LastOp.vfsBefore[id].name = <<".", "e", "n", "v">>
           /\ LastOp.vfsBefore[id].parentId = FsProjectId
           /\ LastOp.vfsBefore[id].type = "folder"
           /\ HostIsFile(host, Append(FsRoot, <<".", "e", "n", "v">>))
           /\ vfs[id] = LastOp.vfsBefore[id]
    /\ \E id \in DOMAIN LastOp.vfsBefore :
           /\ LastOp.vfsBefore[id].name = <<"b">>
           /\ LastOp.vfsBefore[id].parentId = FsProjectId
           /\ ~ HostExists(host, Append(FsRoot, <<"b">>))
           /\ vfs[id] = LastOp.vfsBefore[id]

----------------------------------------------------------------------------
(* SpecTrigger: the sync triggers of the filesystem surface for project d  *)
(* of owner u, called by u and by v with every node id of the store and    *)
(* with null as vfsProjectId, from the stores and host directories of      *)
(* SpecSync.                                                               *)

MaxTriggers == 1

\* the request is answered and logged with the vfsProjectId of its body
Triggered(op, vfsProjectId, status) ==
    /\ Len(syncLog) < MaxTriggers
    /\ syncLog' = Append(syncLog,
           [op |-> op, ok |-> status = 200, vfsProjectId |-> vfsProjectId,
            vfsBefore |-> vfs, hostBefore |-> host])
    /\ UNCHANGED <<clock, SyncRest>>

TriggerVfsToHostSync(actor, vfsProjectId, order) ==
    LET r == triggerVfsToHostSync(vfs, host, actor, OwnerU, SlugD, vfsProjectId, order)
    IN  /\ host' = r.host
        /\ vfs' = vfs
        /\ Triggered("triggerVfsToHostSync", vfsProjectId, r.status)

TriggerHostToVfsSync(actor, vfsProjectId, order) ==
    LET r == triggerHostToVfsSync(vfs, host, actor, OwnerU, SlugD, vfsProjectId, clock, order)
    IN  /\ vfs' = r.store
        /\ host' = host
        /\ Triggered("triggerHostToVfsSync", vfsProjectId, r.status)

NextTrigger ==
    \/ \E actor \in FsActors, vfsProjectId \in DOMAIN vfs \cup {NullId}, order \in SyncOrders :
           TriggerVfsToHostSync(actor, vfsProjectId, order)
    \/ \E actor \in FsActors, vfsProjectId \in DOMAIN vfs \cup {NullId}, order \in SyncOrders :
           TriggerHostToVfsSync(actor, vfsProjectId, order)

SpecTrigger == InitSync /\ [][NextTrigger]_vars

\* C37 (sync triggers act on the named project): a trigger whose
\* vfsProjectId is neither the id of the root node of project (u, d), for
\* which the permission was checked, nor null is rejected, and changes
\* neither the store nor the host directory.
C37_TriggersActOnNamedProject ==
    Len(syncLog) > 0 =>
        LET e == syncLog[Len(syncLog)]
        IN  e.vfsProjectId \notin ProjectRootIds(e.vfsBefore, OwnerU, SlugD) \cup {NullId}
            => (~ e.ok /\ vfs = e.vfsBefore /\ host = e.hostBefore)

----------------------------------------------------------------------------
(* SpecVfs: the requests of fileController on the documents of owner u,    *)
(* from a store that holds the project root.                               *)

MaxVfsDocs == 3

InitVfs ==
    /\ pathCall = NoCall
    /\ fsLast = NoRequest
    /\ vfs = << FileDoc(OwnerU, SlugD, "folder", "", NullId, 0) >>
    /\ host = HostOf({ <<ParentOf(FsRoot), DirEntry>> })
    /\ SyncIdle
    /\ SessionIdle

\* createFile: File.create({ name, type, parentId: parentId || null, userId })
CreateFile(name, type, parentId) ==
    /\ Len(vfs) < MaxVfsDocs
    /\ vfs' = Append(vfs, FileDoc(OwnerU, name, type, "", parentId, 0))
    /\ UNCHANGED <<host, clock, syncLog, SyncRest>>

\* moveFile: file.parentId = targetId || null; file.save()
MoveFile(draggedId, targetId) ==
    /\ vfs[draggedId].type # "deleted"
    /\ vfs[draggedId].userId = OwnerU
    /\ vfs' = [vfs EXCEPT ![draggedId].parentId = targetId]
    /\ UNCHANGED <<host, clock, syncLog, SyncRest>>

\* updateFile: file.name = name || file.name; file.save()
UpdateFile(id, name) ==
    /\ vfs[id].type # "deleted"
    /\ vfs[id].userId = OwnerU
    /\ vfs' = [vfs EXCEPT ![id].name = name]
    /\ UNCHANGED <<host, clock, syncLog, SyncRest>>

\* deleteFile: file.deleteOne()
DeleteFile(id) ==
    /\ vfs[id].type # "deleted"
    /\ vfs[id].userId = OwnerU
    /\ vfs' = [vfs EXCEPT ![id] = Tombstone]
    /\ UNCHANGED <<host, clock, syncLog, SyncRest>>

NextVfs ==
    \/ \E name \in FsNames \cup {<<"a">>}, type \in {"file", "folder"}, parentId \in DOMAIN vfs \cup {NullId} :
           CreateFile(name, type, parentId)
    \/ \E draggedId \in DOMAIN vfs, targetId \in DOMAIN vfs \cup {NullId} : MoveFile(draggedId, targetId)
    \/ \E id \in DOMAIN vfs \ {FsProjectId}, name \in FsNames : UpdateFile(id, name)
    \/ \E id \in DOMAIN vfs \ {FsProjectId} : DeleteFile(id)

SpecVfs == InitVfs /\ [][NextVfs]_vars

\* following parentId from the node `from`, the node `to` is met within n steps
RECURSIVE ReachesIn(_, _, _, _)
ReachesIn(store, from, to, n) ==
    /\ n > 0
    /\ from # NullId
    /\ store[from].type # "deleted"
    /\ \/ store[from].parentId = to
       \/ ReachesIn(store, store[from].parentId, to, n - 1)

\* C29 (the parent relation is acyclic): in every reachable state, no node
\* is met again by following parentId from it; no request makes a node its
\* own parent or the child of one of its descendants.
C29_ParentsAcyclic ==
    \A i \in DOMAIN vfs : ~ ReachesIn(vfs, i, i, Len(vfs))

----------------------------------------------------------------------------
(* SpecSession: the calls of the session manager for one key, in every     *)
(* interleaving of their awaits, over a store with project d and an empty  *)
(* projects directory.                                                     *)

MaxTasks == 2
MaxContainers == 2
MaxSpawns == 3

TaskSlots == 1..MaxTasks
ContainerIds == 1..MaxContainers

InitSession ==
    /\ pathCall = NoCall
    /\ fsLast = NoRequest
    /\ SyncIdle
    /\ vfs = << FileDoc(OwnerU, SlugD, "folder", "", NullId, 0),
                FileDoc(OwnerU, <<"a">>, "file", "x", FsProjectId, 0) >>
    /\ host = HostOf({ <<ParentOf(FsRoot), DirEntry>> })
    /\ activeContainers = [k \in RegistryKeys |-> NoSession]
    /\ containerTimers = [k \in RegistryKeys |-> "none"]
    /\ activePtySessions = [k \in RegistryKeys |-> NoPty]
    /\ containers = [c \in ContainerIds |-> NoContainer]
    /\ tasks = [i \in TaskSlots |-> IdleTask]
    /\ pulled = {}
    /\ ensured = NoEnsure
    /\ spawned = 0
    /\ ptyProcesses = <<>>
    /\ disconnected = {}

\* a call starts in the first free slot; the calls in flight are no longer
\* calls that nothing but an eviction overlaps
Begin(i, t) ==
    /\ tasks[i] = IdleTask
    /\ \A j \in TaskSlots : j < i => tasks[j] # IdleTask
    /\ spawned < MaxSpawns
    /\ spawned' = spawned + 1
    /\ tasks' = [j \in TaskSlots |-> IF j = i THEN t ELSE [tasks[j] EXCEPT !.race = FALSE]]
    /\ ensured' = NoEnsure

Task(kind, pc, key, slug, vfsId) ==
    [IdleTask EXCEPT !.kind = kind, !.pc = pc, !.key = key, !.slug = slug, !.vfsId = vfsId]

EvictionRuns(key) == \E j \in TaskSlots : tasks[j].kind = "evict" /\ tasks[j].key = key

\* initialize_pty up to the pull: a PTY of the socket is killed and
\* forgotten, the project root is looked up
InitializePty(i, key, slug) ==
    /\ Begin(i, [Task("pty", "p_pull", key, slug, VfsRootIdOf(vfs, key[1], slug))
                   EXCEPT !.race = EvictionRuns(key)])
    /\ activePtySessions' = [activePtySessions EXCEPT ![key] = NoPty]
    /\ UNCHANGED <<vfs, host, activeContainers, containerTimers, containers, pulled, SessionRest>>

\* the catch of initialize_pty: pty_error is emitted
PtyFailed(i, registry) ==
    /\ tasks' = [tasks EXCEPT ![i] = IdleTask]
    /\ activePtySessions' = [activePtySessions EXCEPT ![tasks[i].key] = NoPty]
    /\ activeContainers' = registry
    /\ ensured' = [NoEnsure EXCEPT !.error = TRUE]
    /\ UNCHANGED containerTimers

\* the pull of initialize_pty has ended; prepareContainerForPty calls
\* createDockerContainer
PtyPulled(i) ==
    LET t == tasks[i]
        r == syncProjectFromVfsToHost(vfs, host, t.key[1], t.vfsId,
                                      ProjectRootOnHost(t.key[1], t.slug), "asc")
    IN  /\ t.pc = "p_pull"
        /\ host' = r.host
        /\ IF r.ok
           THEN /\ pulled' = pulled \cup {t.slug}
                /\ tasks' = [tasks EXCEPT ![i] = createDockerContainer(t, activeContainers)]
                /\ UNCHANGED <<activeContainers, containerTimers, activePtySessions, ensured>>
           ELSE /\ PtyFailed(i, activeContainers)
                /\ UNCHANGED pulled
        /\ UNCHANGED <<vfs, containers, spawned, SessionRest>>

\* executeCommandInContainer (runScript, installPackages, startDevServer)
\* up to its first await: without a session createDockerContainer is
\* called, with one its container is inspected
ExecuteCommand(i, key, slug) ==
    LET t == [Task("exec", "e_inspect", key, slug, NullId) EXCEPT !.race = EvictionRuns(key)]
    IN  /\ Begin(i, IF activeContainers[key] = NoSession
                    THEN createDockerContainer(t, activeContainers)
                    ELSE [t EXCEPT !.cont = activeContainers[key].container])
        /\ UNCHANGED <<vfs, host, activeContainers, containerTimers, activePtySessions,
                       containers, pulled, SessionRest>>

\* createDockerContainer returns the container to its caller: the PTY
\* handler goes on to the shell check, executeCommandInContainer reads the
\* registry again, resets the timer and runs the command
Returned(i, cid, registry, timers) ==
    LET t == tasks[i]
    IN  /\ ensured' = [container |-> cid, race |-> t.race, error |-> FALSE]
        /\ activeContainers' = registry
        /\ IF t.kind = "pty"
           THEN /\ tasks' = [tasks EXCEPT ![i] = [t EXCEPT !.pc = "p_shell", !.cont = cid]]
                /\ containerTimers' = timers
           ELSE IF registry[t.key] = NoSession
           THEN /\ tasks' = [tasks EXCEPT ![i] = IdleTask]
                /\ containerTimers' = timers
           ELSE /\ tasks' = [tasks EXCEPT ![i] =
                                [t EXCEPT !.pc = "e_exec", !.cont = registry[t.key].container]]
                /\ containerTimers' = resetContainerTimer(timers, t.key)

\* (a catch that forgets activeContainers.delete)
CreateFailedKeepsEntry(i) ==
    LET t == tasks[i]
    IN  IF t.kind = "pty" THEN PtyFailed(i, activeContainers)
        ELSE /\ tasks' = [tasks EXCEPT ![i] = IdleTask]
             /\ ensured' = [NoEnsure EXCEPT !.error = TRUE]
             /\ UNCHANGED <<activeContainers, containerTimers, activePtySessions>>

\* the catch of createDockerContainer: the key is deleted from the registry
\* and the error goes to the caller, which gives up
CreateFailed(i) ==
    LET t == tasks[i]
        registry == [activeContainers EXCEPT ![t.key] = NoSession]
    IN  IF t.kind = "pty" THEN PtyFailed(i, registry)
        ELSE /\ tasks' = [tasks EXCEPT ![i] = IdleTask]
             /\ activeContainers' = registry
             /\ ensured' = [NoEnsure EXCEPT !.error = TRUE]
             /\ UNCHANGED <<containerTimers, activePtySessions>>

\* (a reuse path that returns the running container without resetContainerTimer)
CreateInspectedKeepsTimer(i, ok) ==
    LET t == tasks[i]
    IN  /\ t.pc = "c_inspect"
        /\ IF ok /\ containers[t.cont].state = "running"
           THEN /\ Returned(i, t.cont, activeContainers, containerTimers)
                /\ UNCHANGED activePtySessions
           ELSE /\ tasks' = [tasks EXCEPT ![i] = [t EXCEPT !.pc = "c_rmstale"]]
                /\ UNCHANGED <<activeContainers, containerTimers, activePtySessions, ensured>>
        /\ UNCHANGED <<vfs, host, containers, pulled, spawned, SessionRest>>

\* the inspect of the registered container has ended: a running container
\* is returned, any other, and one whose inspect throws, is removed
CreateInspected(i, ok) ==
    LET t == tasks[i]
    IN  /\ t.pc = "c_inspect"
        /\ IF ok /\ containers[t.cont].state = "running"
           THEN /\ Returned(i, t.cont, activeContainers, resetContainerTimer(containerTimers, t.key))
                /\ UNCHANGED activePtySessions
           ELSE /\ tasks' = [tasks EXCEPT ![i] = [t EXCEPT !.pc = "c_rmstale"]]
                /\ UNCHANGED <<activeContainers, containerTimers, activePtySessions, ensured>>
        /\ UNCHANGED <<vfs, host, containers, pulled, spawned, SessionRest>>

\* container.remove({ force: true }) of the stale container has ended, or
\* has failed with a warning
CreateRemovedStale(i, ok) ==
    LET t == tasks[i]
    IN  /\ t.pc = "c_rmstale"
        /\ containers' = IF ok THEN [containers EXCEPT ![t.cont].state = "removed"]
                         ELSE containers
        /\ tasks' = [tasks EXCEPT ![i] = [t EXCEPT !.pc = "c_prepare"]]
        /\ UNCHANGED <<vfs, host, activeContainers, containerTimers, activePtySessions,
                       pulled, ensured, spawned, SessionRest>>

\* the host directory is made and the image is there or pulled, or the
\* pull of the image fails
CreatePrepared(i, imageOk) ==
    LET t == tasks[i]
        dir == ProjectRootOnHost(t.key[1], t.slug)
        made == IF HostExists(host, dir) THEN [ok |-> TRUE, host |-> host]
                ELSE MkdirRecursive(host, dir)
    IN  /\ t.pc = "c_prepare"
        /\ host' = made.host
        /\ IF made.ok /\ imageOk
           THEN /\ tasks' = [tasks EXCEPT ![i] = [t EXCEPT !.pc = "c_create"]]
                /\ UNCHANGED <<activeContainers, containerTimers, activePtySessions, ensured>>
           ELSE CreateFailed(i)
        /\ UNCHANGED <<vfs, containers, pulled, spawned, SessionRest>>

\* docker.createContainer has ended: a new container, bound to the
\* directory, or an error
CreateCreated(i, ok) ==
    LET t == tasks[i]
        free == {c \in ContainerIds : containers[c].state = "none"}
    IN  /\ t.pc = "c_create"
        /\ free # {}
        /\ IF ok
           THEN LET cid == CHOOSE c \in free : \A d \in free : c <= d
                IN  /\ containers' = [containers EXCEPT ![cid] =
                           [NoContainer EXCEPT !.state = "created", !.slug = t.slug,
                                                !.pulled = t.slug \in pulled]]
                    /\ tasks' = [tasks EXCEPT ![i] = [t EXCEPT !.pc = "c_start", !.cont = cid]]
                    /\ UNCHANGED <<activeContainers, containerTimers, activePtySessions, ensured>>
           ELSE /\ CreateFailed(i)
                /\ UNCHANGED containers
        /\ UNCHANGED <<vfs, host, pulled, spawned, SessionRest>>

\* newContainer.start() has ended: the session is registered, its timer
\* set; or start has thrown
CreateStarted(i, ok) ==
    LET t == tasks[i]
    IN  /\ t.pc = "c_start"
        /\ IF ok
           THEN /\ containers' = [containers EXCEPT ![t.cont].state = "running"]
                /\ Returned(i, t.cont,
                            [activeContainers EXCEPT ![t.key] =
                                [container |-> t.cont, projectSlug |-> t.slug,
                                 vfsProjectRootId |-> t.vfsId]],
                            resetContainerTimer(containerTimers, t.key))
                /\ UNCHANGED activePtySessions
           ELSE /\ CreateFailed(i)
                /\ UNCHANGED containers
        /\ UNCHANGED <<vfs, host, pulled, spawned, SessionRest>>

\* the shell check has ended: the PTY is spawned and recorded, the timer reset
PtySpawned(i) ==
    LET t == tasks[i]
    IN  /\ t.pc = "p_shell"
        /\ activePtySessions' = [activePtySessions EXCEPT ![t.key] = [containerId |-> t.cont, cols |-> 80, ptyProcess |-> 1]]
        /\ containerTimers' = resetContainerTimer(containerTimers, t.key)
        /\ tasks' = [tasks EXCEPT ![i] = IdleTask]
        /\ UNCHANGED <<vfs, host, activeContainers, containers, pulled, ensured, spawned, SessionRest>>

\* pty_input: the timer of a session with a PTY is reset
PtyInput(key) ==
    /\ activePtySessions[key] # NoPty
    /\ containerTimers' = resetContainerTimer(containerTimers, key)
    /\ UNCHANGED <<vfs, host, activeContainers, activePtySessions, containers, tasks, pulled,
                   ensured, spawned, SessionRest>>

\* pty_resize: the PTY of the socket gets the new width
PtyResize(key, cols) ==
    /\ activePtySessions[key] # NoPty
    /\ activePtySessions' = [activePtySessions EXCEPT ![key].cols = cols]
    /\ UNCHANGED <<vfs, host, activeContainers, containerTimers, containers, tasks, pulled,
                   ensured, spawned, SessionRest>>

\* (a disconnect handler that also drops the session of the socket)
DisconnectDropsSession(key) ==
    /\ activePtySessions[key] # NoPty
    /\ activePtySessions' = [activePtySessions EXCEPT ![key] = NoPty]
    /\ activeContainers' = [activeContainers EXCEPT ![key] = NoSession]
    /\ containerTimers' = [containerTimers EXCEPT ![key] = "none"]
    /\ UNCHANGED <<vfs, host, containers, tasks, pulled, ensured, spawned, SessionRest>>

\* disconnect: the PTY is killed and forgotten, the container stays
Disconnect(key) ==
    /\ activePtySessions[key] # NoPty
    /\ activePtySessions' = [activePtySessions EXCEPT ![key] = NoPty]
    /\ UNCHANGED <<vfs, host, activeContainers, containerTimers, containers, tasks, pulled,
                   ensured, spawned, SessionRest>>

\* ptyProcess.onExit: the shell has ended, the PTY session of the socket is
\* forgotten
PtyExit(key) ==
    /\ activePtySessions[key] # NoPty
    /\ activePtySessions' = [activePtySessions EXCEPT ![key] = NoPty]
    /\ UNCHANGED <<vfs, host, activeContainers, containerTimers, containers, tasks, pulled,
                   ensured, spawned, SessionRest>>


\* the inspect of executeCommandInContainer has ended: a running container
\* is used, a stopped one is started, and when the inspect throws
\* createDockerContainer is called
ExecInspected(i) ==
    LET t == tasks[i]
        state == containers[t.cont].state
    IN  /\ t.pc = "e_inspect"
        /\ tasks' = [tasks EXCEPT ![i] =
                       IF state = "running" THEN [t EXCEPT !.pc = "e_exec"]
                       ELSE IF state = "removed" THEN createDockerContainer(t, activeContainers)
                       ELSE [t EXCEPT !.pc = "e_start"]]
        /\ containerTimers' = IF state = "running" THEN resetContainerTimer(containerTimers, t.key)
                              ELSE containerTimers
        /\ UNCHANGED <<vfs, host, activeContainers, activePtySessions, containers, pulled,
                       ensured, spawned, SessionRest>>

\* container.start() of executeCommandInContainer has ended
ExecStarted(i) ==
    LET t == tasks[i]
        gone == containers[t.cont].state = "removed"
    IN  /\ t.pc = "e_start"
        /\ containers' = IF gone THEN containers
                         ELSE [containers EXCEPT ![t.cont].state = "running"]
        /\ tasks' = [tasks EXCEPT ![i] =
                       IF gone THEN createDockerContainer(t, activeContainers)
                       ELSE [t EXCEPT !.pc = "e_exec"]]
        /\ containerTimers' = IF gone THEN containerTimers
                              ELSE resetContainerTimer(containerTimers, t.key)
        /\ UNCHANGED <<vfs, host, activeContainers, activePtySessions, pulled, ensured, spawned,
                       SessionRest>>

\* (an executeCommandInContainer that calls createDockerContainer again when
\* container.exec finds the container gone)
ExecRanRetries(i) ==
    LET t == tasks[i]
        gone == containers[t.cont].state = "removed"
    IN  /\ t.pc = "e_exec"
        /\ tasks' = [tasks EXCEPT ![i] =
                       IF gone THEN createDockerContainer(t, [activeContainers EXCEPT ![t.key] = NoSession])
                       ELSE IdleTask]
        /\ activeContainers' = IF gone THEN [activeContainers EXCEPT ![t.key] = NoSession]
                               ELSE activeContainers
        /\ containerTimers' = IF gone THEN [containerTimers EXCEPT ![t.key] = "none"]
                              ELSE containerTimers
        /\ UNCHANGED <<vfs, host, activePtySessions, containers, pulled, ensured, spawned,
                       SessionRest>>

\* the command has run, or container.exec has thrown: on "no such
\* container" the key is deleted from the registry and its timer cleared
ExecRan(i) ==
    LET t == tasks[i]
        gone == containers[t.cont].state = "removed"
    IN  /\ t.pc = "e_exec"
        /\ tasks' = [tasks EXCEPT ![i] = IdleTask]
        /\ activeContainers' = IF gone THEN [activeContainers EXCEPT ![t.key] = NoSession]
                               ELSE activeContainers
        /\ containerTimers' = IF gone THEN [containerTimers EXCEPT ![t.key] = "none"]
                              ELSE containerTimers
        /\ UNCHANGED <<vfs, host, activePtySessions, containers, pulled, ensured, spawned,
                       SessionRest>>

\* stopAndRemoveContainerInternal(userId, terminalId, true) up to the push,
\* for a registered key
StopAndRemoveInternal(i, kind, key) ==
    /\ activeContainers[key] # NoSession
    /\ Begin(i, [Task(kind, "s_push", key, activeContainers[key].projectSlug, NullId)
                   EXCEPT !.session = activeContainers[key]])
    /\ UNCHANGED <<vfs, host, activeContainers, containerTimers, activePtySessions, containers,
                   pulled, SessionRest>>

\* stopAndRemoveContainer: the explicit stop
StopAndRemoveContainer(i, key) == StopAndRemoveInternal(i, "stop", key)

\* cleanupContainers: the sweep at shutdown takes the keys of the registry
\* and calls stopAndRemoveContainerInternal(userId, terminalId, true) for
\* each of them; every call runs up to its push before the sweep awaits
\* them all
CleanupContainers ==
    LET keys == {k \in RegistryKeys : activeContainers[k] # NoSession}
        free == {j \in TaskSlots : tasks[j] = IdleTask}
        Before(k) == {x \in keys : x[2] = <<"s">> \/ x = k}
        SlotOf(k) == CHOOSE j \in free :
                         Cardinality({x \in free : x <= j}) = Cardinality(Before(k))
    IN  /\ keys # {}
        /\ Cardinality(free) >= Cardinality(keys)
        /\ spawned < MaxSpawns
        /\ spawned' = spawned + 1
        /\ tasks' = [j \in TaskSlots |->
                       IF \E k \in keys : SlotOf(k) = j
                       THEN LET k == CHOOSE x \in keys : SlotOf(x) = j
                            IN  [Task("sweep", "s_push", k, activeContainers[k].projectSlug, NullId)
                                   EXCEPT !.session = activeContainers[k]]
                       ELSE [tasks[j] EXCEPT !.race = FALSE]]
        /\ containers' = [c \in ContainerIds |->
                            IF \E k \in keys : activeContainers[k].container = c
                            THEN [containers[c] EXCEPT !.swept = TRUE] ELSE containers[c]]
        /\ ensured' = NoEnsure
        /\ UNCHANGED <<vfs, host, activeContainers, containerTimers, activePtySessions,
                       pulled, SessionRest>>

\* time passes with no activity on the key
IdleTimePasses(key) ==
    /\ containerTimers[key] = "armed"
    /\ containerTimers' = [containerTimers EXCEPT ![key] = "aged"]
    /\ UNCHANGED <<vfs, host, activeContainers, activePtySessions, containers, tasks, pulled,
                   ensured, spawned, SessionRest>>

\* (a callback that returns without containerTimers.delete)
TimerFiresKeepsRecord(i, key) ==
    /\ containerTimers[key] = "aged"
    /\ IF activeContainers[key] = NoSession
       THEN /\ containerTimers' = [containerTimers EXCEPT ![key] = "fired"]
            /\ UNCHANGED <<tasks, ensured, spawned>>
       ELSE /\ containerTimers' = [containerTimers EXCEPT ![key] = "fired"]
            /\ Begin(i, [Task("evict", "t_push", key, activeContainers[key].projectSlug, NullId)
                           EXCEPT !.session = activeContainers[key]])
    /\ UNCHANGED <<vfs, host, activeContainers, activePtySessions, containers, pulled, SessionRest>>

\* the idle timer of the key fires: without a session its entry is deleted,
\* with one the push of the session's directory begins
TimerFires(i, key) ==
    /\ containerTimers[key] = "aged"
    /\ IF activeContainers[key] = NoSession
       THEN /\ containerTimers' = [containerTimers EXCEPT ![key] = "none"]
            /\ UNCHANGED <<tasks, ensured, spawned>>
       ELSE /\ containerTimers' = [containerTimers EXCEPT ![key] = "fired"]
            /\ Begin(i, [Task("evict", "t_push", key, activeContainers[key].projectSlug, NullId)
                           EXCEPT !.session = activeContainers[key]])
    /\ UNCHANGED <<vfs, host, activeContainers, activePtySessions, containers, pulled, SessionRest>>

\* (a teardown that gives up when the host root of its session is missing)
TeardownPushedNeedsRoot(i, ok) ==
    LET t == tasks[i]
        r == syncWorkspaceToVfs(vfs, host, t.key[1],
                                ProjectRootOnHost(t.key[1], t.session.projectSlug),
                                t.session.vfsProjectRootId, clock, "asc")
        pushed == [t EXCEPT !.pushes = @ + 1, !.pushedSlug = t.session.projectSlug]
    IN  /\ t.pc \in {"s_push", "t_push"}
        /\ vfs' = IF ok THEN r.store ELSE vfs
        /\ tasks' = [tasks EXCEPT ![i] =
                       IF ~ HostExists(host, ProjectRootOnHost(t.key[1], t.session.projectSlug))
                       THEN IdleTask
                       ELSE IF t.pc = "s_push" THEN [pushed EXCEPT !.pc = "s_inspect"]
                       ELSE IF activeContainers[t.key] = NoSession THEN IdleTask
                       ELSE [pushed EXCEPT !.pc = "s_inspect", !.session = activeContainers[t.key]]]
        /\ UNCHANGED <<host, activeContainers, containerTimers, activePtySessions, containers,
                       pulled, ensured, spawned, SessionRest>>

\* the push of a teardown has ended, or has thrown at once and the error is
\* logged: stop goes on
\* to inspect the container; the timer callback calls
\* stopAndRemoveContainerInternal(userId, terminalId, false), which reads
\* the registry
TeardownPushed(i, ok) ==
    LET t == tasks[i]
        r == syncWorkspaceToVfs(vfs, host, t.key[1],
                                ProjectRootOnHost(t.key[1], t.session.projectSlug),
                                t.session.vfsProjectRootId, clock, "asc")
        pushed == [t EXCEPT !.pushes = @ + 1, !.pushedSlug = t.session.projectSlug]
    IN  /\ t.pc \in {"s_push", "t_push"}
        /\ vfs' = IF ok THEN r.store ELSE vfs
        /\ tasks' = [tasks EXCEPT ![i] =
                       IF t.pc = "s_push" THEN [pushed EXCEPT !.pc = "s_inspect"]
                       ELSE IF activeContainers[t.key] = NoSession THEN IdleTask
                       ELSE [pushed EXCEPT !.pc = "s_inspect", !.session = activeContainers[t.key]]]
        /\ UNCHANGED <<host, activeContainers, containerTimers, activePtySessions, containers,
                       pulled, ensured, spawned, SessionRest>>

\* the inspect of the teardown has ended: a container that runs is
\* stopped first, any other, and one whose inspect throws, is only removed
TeardownInspected(i, ok) ==
    LET t == tasks[i]
    IN  /\ t.pc = "s_inspect"
        /\ tasks' = [tasks EXCEPT ![i] =
                       [t EXCEPT !.pc = IF ok /\ containers[t.session.container].state = "running"
                                        THEN "s_stop" ELSE "s_remove"]]
        /\ UNCHANGED <<vfs, host, activeContainers, containerTimers, activePtySessions, containers,
                       pulled, ensured, spawned, SessionRest>>

\* container.stop has ended, or has failed with a warning
TeardownStopped(i, ok) ==
    LET t == tasks[i]
        c == t.session.container
    IN  /\ t.pc = "s_stop"
        /\ containers' = IF ok /\ containers[c].state = "running"
                         THEN [containers EXCEPT ![c].state = "exited"] ELSE containers
        /\ tasks' = [tasks EXCEPT ![i] = [t EXCEPT !.pc = "s_remove"]]
        /\ UNCHANGED <<vfs, host, activeContainers, containerTimers, activePtySessions, pulled,
                       ensured, spawned, SessionRest>>

\* (a teardown that a throwing remove ends before the registry is cleaned)
TeardownRemovedAborts(i, ok) ==
    LET t == tasks[i]
        c == t.session.container
    IN  /\ t.pc = "s_remove"
        /\ containers' = IF containers[c].state = "removed" THEN containers
                         ELSE IF ok THEN [containers EXCEPT ![c].state = "removed"]
                         ELSE [containers EXCEPT ![c].removeFailed = TRUE]
        /\ activeContainers' = IF ok THEN [activeContainers EXCEPT ![t.key] = NoSession]
                               ELSE activeContainers
        /\ containerTimers' = IF ok THEN [containerTimers EXCEPT ![t.key] = "none"]
                              ELSE containerTimers
        /\ tasks' = [tasks EXCEPT ![i] = IdleTask]
        /\ UNCHANGED <<vfs, host, activePtySessions, pulled, ensured, spawned, SessionRest>>

\* container.remove({ force: true }) has ended, or has thrown and the error
\* is logged; finally the key is deleted from the registry, whatever session
\* it holds, and its timer is cleared
TeardownRemoved(i, ok) ==
    LET t == tasks[i]
        c == t.session.container
    IN  /\ t.pc = "s_remove"
        /\ containers' = IF containers[c].state = "removed" THEN containers
                         ELSE IF ok THEN [containers EXCEPT ![c].state = "removed"]
                         ELSE [containers EXCEPT ![c].removeFailed = TRUE]
        /\ activeContainers' = [activeContainers EXCEPT ![t.key] = NoSession]
        /\ containerTimers' = [containerTimers EXCEPT ![t.key] = "none"]
        /\ tasks' = [tasks EXCEPT ![i] = IdleTask]
        /\ UNCHANGED <<vfs, host, activePtySessions, pulled, ensured, spawned, SessionRest>>

\* the process of a container ends by itself
ContainerExits(c) ==
    /\ containers[c].state = "running"
    /\ containers' = [containers EXCEPT ![c].state = "exited"]
    /\ ensured' = NoEnsure
    /\ tasks' = [j \in TaskSlots |-> [tasks[j] EXCEPT !.race = FALSE]]
    /\ UNCHANGED <<vfs, host, activeContainers, containerTimers, activePtySessions, pulled,
                   spawned, SessionRest>>

NextSession ==
    \/ \E i \in TaskSlots, key \in SessionKeys, slug \in SessionSlugs : InitializePty(i, key, slug)
    \/ \E i \in TaskSlots, key \in SessionKeys, slug \in SessionSlugs : ExecuteCommand(i, key, slug)
    \/ \E i \in TaskSlots, key \in SessionKeys : StopAndRemoveContainer(i, key)
    \/ CleanupContainers
    \/ \E key \in SessionKeys : IdleTimePasses(key)
    \/ \E i \in TaskSlots, key \in SessionKeys : TimerFires(i, key)
    \/ \E i \in TaskSlots : PtyPulled(i)
    \/ \E i \in TaskSlots, ok \in BOOLEAN : CreateInspected(i, ok)
    \/ \E i \in TaskSlots, ok \in BOOLEAN : CreateRemovedStale(i, ok)
    \/ \E i \in TaskSlots, imageOk \in BOOLEAN : CreatePrepared(i, imageOk)
    \/ \E i \in TaskSlots, ok \in BOOLEAN : CreateCreated(i, ok)
    \/ \E i \in TaskSlots, ok \in BOOLEAN : CreateStarted(i, ok)
    \/ \E i \in TaskSlots : PtySpawned(i)
    \/ \E i \in TaskSlots : ExecInspected(i)
    \/ \E i \in TaskSlots : ExecStarted(i)
    \/ \E i \in TaskSlots : ExecRan(i)
    \/ \E i \in TaskSlots, ok \in BOOLEAN : TeardownPushed(i, ok)
    \/ \E i \in TaskSlots, ok \in BOOLEAN : TeardownInspected(i, ok)
    \/ \E i \in TaskSlots, ok \in BOOLEAN : TeardownStopped(i, ok)
    \/ \E i \in TaskSlots, ok \in BOOLEAN : TeardownRemoved(i, ok)
    \/ \E c \in ContainerIds : ContainerExits(c)
    \/ \E key \in SessionKeys : PtyInput(key)
    \/ \E key \in SessionKeys, cols \in PtyCols : PtyResize(key, cols)
    \/ \E key \in SessionKeys : Disconnect(key)
    \/ \E key \in SessionKeys : PtyExit(key)

SpecSession == InitSession /\ [][NextSession]_vars

\* the running containers made for a key
RunningOf(key) == {c \in ContainerIds : containers[c].state = "running"}

\* C2 (session uniqueness): at every instant at most one sandbox of a key
\* is running, whatever calls of createDockerContainer overlap.
C2_SessionUniqueness ==
    \A key \in SessionKeys : Cardinality(RunningOf(key)) <= 1

\* C3 (eviction/creation race): when an ensure call that arrived during an
\* eviction of its key has returned a container and both have ended, the
\* registry holds that container for the key and it is the one running
\* sandbox of the key.
C3_EvictionCreationRace ==
    (/\ ensured.race
     /\ \A i \in TaskSlots : tasks[i] = IdleTask)
    => \A key \in SessionKeys :
           /\ activeContainers[key].container = ensured.container
           /\ RunningOf(key) = {ensured.container}

\* C5 (lifecycle ordering): every sandbox was created after a pull of its
\* project directory had completed.
C5_PullBeforeCreate ==
    \A c \in ContainerIds : containers[c].state # "none" => containers[c].pulled

\* C10 (sync before teardown): a teardown that has inspected the sandbox of
\* a session has run the push of that session's working directory exactly
\* once, and to its end, before.
C10_SyncBeforeTeardown ==
    \A i \in TaskSlots :
        tasks[i].pc \in {"s_stop", "s_remove"}
        => (tasks[i].pushes = 1 /\ tasks[i].pushedSlug = tasks[i].session.projectSlug)


\* the teardowns: explicit stop, shutdown sweep, idle eviction
TeardownKinds == {"stop", "sweep", "evict"}

\* C11 (correct pair on stop): a teardown that read session S of a key and
\* ends while the registry holds a newer session of that key leaves that
\* registry entry and the timer of the key as they are.
C11_CorrectPairOnStop ==
    [][\A i \in TaskSlots :
          LET t == tasks[i]
          IN  (/\ t.kind \in TeardownKinds
               /\ t.pc = "s_remove"
               /\ tasks'[i] = IdleTask
               /\ activeContainers[t.key] # NoSession
               /\ activeContainers[t.key].container # t.session.container)
              => /\ activeContainers'[t.key] = activeContainers[t.key]
                 /\ containerTimers'[t.key] = containerTimers[t.key]]_vars


\* C12 (creation failure semantics): a createDockerContainer call that fails
\* while it prepares the directory and the image, creates or starts the
\* container ends with an error for its caller and with no registry entry
\* for the key; and an entry is written to the registry only for a container
\* that has started.
C12_CreationFailure ==
    [][/\ \A i \in TaskSlots :
             (tasks[i].pc \in {"c_prepare", "c_create", "c_start"} /\ tasks'[i] = IdleTask)
             => (activeContainers'[tasks[i].key] = NoSession /\ ensured'.error)
       /\ \A key \in RegistryKeys :
             (activeContainers'[key] # activeContainers[key] /\ activeContainers'[key] # NoSession)
             => containers'[activeContainers'[key].container].state = "running"]_vars

\* a creation has failed at start: its container exists, was never started
\* and is in no registry entry
C12_Witness ==
    /\ ensured.error
    /\ \A key \in RegistryKeys : activeContainers[key] = NoSession
    /\ \E c \in ContainerIds : containers[c].state = "created"
    /\ \A i \in TaskSlots : tasks[i] = IdleTask


\* C13 (timer cancellation): a step that removes the registry entry of a key
\* leaves no idle timer of that key pending.
C13_TimerCancellation ==
    [][\A key \in RegistryKeys :
          (activeContainers[key] # NoSession /\ activeContainers'[key] = NoSession)
          => containerTimers'[key] \notin {"armed", "aged"}]_vars


\* the calls in flight go on undisturbed in a step (a call that begins makes
\* the others forget that only an eviction overlaps them)
TasksStay == \A i \in TaskSlots : tasks[i] # IdleTask => tasks'[i].pc = tasks[i].pc

\* C14 (a dangling timer is a no-op): when the timer of a key without a
\* registry entry fires, no call begins (so no push and no stop or remove
\* of a sandbox), registry, store, host and containers stay as they are and
\* the timer record of the key is discarded.
C14_DanglingTimerNoOp ==
    [][\A key \in RegistryKeys :
          (/\ containerTimers[key] = "aged"
           /\ containerTimers'[key] \in {"none", "fired"}
           /\ TasksStay
           /\ activeContainers[key] = NoSession)
          => /\ tasks' = tasks
             /\ activeContainers' = activeContainers
             /\ containers' = containers
             /\ vfs' = vfs /\ host' = host
             /\ containerTimers' = [containerTimers EXCEPT ![key] = "none"]]_vars

\* a timer has fired for a key without a session, after a session of the key
\* had been there: its record is gone and nothing runs
C14_Witness ==
    /\ \A key \in SessionKeys : containerTimers[key] = "none" /\ activeContainers[key] = NoSession
    /\ \A i \in TaskSlots : tasks[i] = IdleTask
    /\ ensured.error
    /\ \E c \in ContainerIds : containers[c].state = "running"


\* C15 (fail-open teardown): a teardown that has started for a registered
\* session ends with the key absent from the registry and no timer of the
\* key pending, whatever has failed on its way; and the force-remove follows
\* the graceful stop whether or not that has succeeded.
C15_FailOpenTeardown ==
    [][\A i \in TaskSlots :
          LET t == tasks[i]
          IN  /\ (t.kind \in TeardownKinds /\ tasks'[i] = IdleTask)
                 => /\ activeContainers'[t.key] = NoSession
                    /\ containerTimers'[t.key] \notin {"armed", "aged"}
              /\ (t.pc = "s_stop" /\ tasks'[i].pc # "s_stop")
                 => tasks'[i].pc = "s_remove"]_vars


C17_ActivityResetsTimer ==
    [][\A key \in RegistryKeys :
          /\ (/\ activePtySessions[key] # NoPty
              /\ activePtySessions'[key] # NoPty
              /\ activePtySessions'[key].cols # activePtySessions[key].cols)
             => containerTimers'[key] = "armed"
          /\ \A i \in TaskSlots :
                (tasks[i].key = key /\ tasks[i].pc # "e_exec" /\ tasks'[i].pc = "e_exec")
                => containerTimers'[key] = "armed"]_vars


\* the awaits of executeCommandInContainer in the order of the code: the
\* inspect and start of the registered container, the awaits of the one
\* call of createDockerContainer, the run of the command
ExecOrder(pc) ==
    CASE pc = "e_inspect" -> 8
      [] pc = "e_start" -> 7
      [] pc = "c_inspect" -> 6
      [] pc = "c_rmstale" -> 5
      [] pc = "c_prepare" -> 4
      [] pc = "c_create" -> 3
      [] pc = "c_start" -> 2
      [] pc = "e_exec" -> 1
      [] OTHER -> 0

\* C27 (bounded retry of executeCommandInContainer): a call moves only
\* forward through its awaits, so it calls createDockerContainer at most
\* once and never again after the command was tried; it calls it at once
\* when the key is unregistered; when it comes to run the command it has a
\* container and has just reset the idle timer of the key; a call whose
\* creation fails ends with an error; and when the command finds the
\* container gone, the call ends with the key unregistered and without an
\* idle timer.
C27_BoundedRetry ==
    [][\A i \in TaskSlots :
         /\ (tasks[i].kind = "exec" /\ tasks'[i].pc # tasks[i].pc)
            => /\ tasks'[i] = IdleTask \/ tasks'[i].kind = "exec"
               /\ ExecOrder(tasks'[i].pc) < ExecOrder(tasks[i].pc)
               /\ tasks'[i].pc = "e_exec"
                  => (tasks'[i].cont # 0 /\ containerTimers'[tasks[i].key] = "armed")
               /\ (tasks'[i] = IdleTask /\ tasks[i].pc \in {"c_prepare", "c_create"})
                  => ensured'.error
               /\ (tasks'[i] = IdleTask /\ tasks[i].pc = "e_exec"
                      /\ containers[tasks[i].cont].state = "removed")
                  => (/\ activeContainers'[tasks[i].key] = NoSession
                      /\ containerTimers'[tasks[i].key] = "none")
         /\ (tasks[i] = IdleTask /\ tasks'[i].kind = "exec")
            => (/\ tasks'[i].pc \in {"e_inspect", "c_prepare"}
                /\ tasks'[i].pc = "c_prepare" <=> activeContainers[tasks'[i].key] = NoSession)]_vars

\* a call has ensured a container and reset the timer, and is about to run
\* the command in the container, which is gone by now
C27_Witness ==
    \E i \in TaskSlots :
        /\ tasks[i].kind = "exec"
        /\ tasks[i].pc = "e_exec"
        /\ containers[tasks[i].cont].state = "removed"
        /\ activeContainers[tasks[i].key] # NoSession

\* C30 (reuse path): when the registry holds a session for the key and the
\* inspection of its sandbox reports it running, createDockerContainer
\* creates no sandbox, returns the registered one, leaves the registry as
\* it is and resets the idle timer of the key.
C30_ReusePath ==
    [][\A i \in TaskSlots :
         (/\ tasks[i].pc = "c_inspect"
          /\ tasks'[i].pc \notin {"c_inspect", "c_rmstale"}
          /\ activeContainers[tasks[i].key].container = tasks[i].cont)
         => (/\ containers[tasks[i].cont].state = "running"
             /\ containers' = containers
             /\ activeContainers' = activeContainers
             /\ containerTimers'[tasks[i].key] = "armed"
             /\ ensured' = [container |-> tasks[i].cont, race |-> tasks[i].race, error |-> FALSE]
             /\ tasks'[i].cont = tasks[i].cont
             /\ tasks'[i].pc \in {"p_shell", "e_exec"})]_vars

\* initialize_pty has got back the running sandbox that an earlier
\* executeCommandInContainer had registered, and no other was created
C30_Witness ==
    \E i \in TaskSlots :
        /\ tasks[i].kind = "pty"
        /\ tasks[i].pc = "p_shell"
        /\ activeContainers[tasks[i].key].container = tasks[i].cont
        /\ containers[tasks[i].cont].state = "running"
        /\ ~ containers[tasks[i].cont].pulled
        /\ \A c \in ContainerIds \ {tasks[i].cont} : containers[c].state = "none"

\* C31 (stale path): while createDockerContainer makes the replacement of a
\* registered sandbox that it found not live, the registry no longer holds
\* the stale sandbox, so no other call can get it from there.
C31_StaleEntryRemoved ==
    \A i \in TaskSlots :
        (tasks[i].pc \in {"c_prepare", "c_create"} /\ tasks[i].cont # 0)
            => activeContainers[tasks[i].key].container # tasks[i].cont

\* C32 (eviction only after a full idle interval): an idle eviction stops
\* or removes a sandbox, or deletes a registry entry, only while the timer
\* that started it is the last one set for the key; after a reset of the
\* timer the eviction leaves the session registered and running.
C32_EvictionAfterFullInterval ==
    [][\A i \in TaskSlots :
         (/\ tasks[i].kind = "evict"
          /\ tasks'[i].pc # tasks[i].pc
          /\ (containers' # containers \/ activeContainers' # activeContainers))
         => containerTimers[tasks[i].key] = "fired"]_vars

\* C33 (no orphan sandboxes): when no call is in flight, every sandbox that
\* was created and is not removed is the one that the registry holds for a
\* key, and the idle timer of that key is pending.
C33_NoOrphanSandboxes ==
    (\A i \in TaskSlots : tasks[i] = IdleTask)
    => \A c \in ContainerIds :
           containers[c].state \in {"created", "running", "exited"}
           => \E key \in RegistryKeys :
                  /\ activeContainers[key].container = c
                  /\ containerTimers[key] \in {"armed", "aged"}

\* C34 (teardown pushes into the session's own project): the push of a stop
\* or an idle eviction of a session whose projectSlug names a VFS project
\* of the owner creates and changes nodes only in the subtree of the root
\* node of that project.
C34_TeardownPushesIntoProject ==
    [][\A i \in TaskSlots :
         LET t == tasks[i]
             roots == ProjectRootIds(vfs, t.key[1], t.session.projectSlug)
         IN  (/\ t.pc \in {"s_push", "t_push"}
              /\ tasks'[i].pc # t.pc
              /\ roots # {})
             => \A id \in DOMAIN vfs' :
                    (id \notin DOMAIN vfs \/ vfs'[id] # vfs[id])
                    => \E rootId \in roots : ReachesRoot(vfs', id, rootId)]_vars

----------------------------------------------------------------------------
(* SpecSweep: the shutdown sweep over a registry with the sessions of two  *)
(* sockets, their terminals attached, while timers fire, terminals send    *)
(* events and containers exit; no session is created meanwhile.            *)

InitSweep ==
    /\ pathCall = NoCall
    /\ fsLast = NoRequest
    /\ SyncIdle
    /\ vfs = << FileDoc(OwnerU, SlugD, "folder", "", NullId, 0),
                FileDoc(OwnerU, <<"a">>, "file", "x", FsProjectId, 0) >>
    /\ host \in { HostOf({ <<FsRoot, DirEntry>>, <<PathJoin(FsRoot, <<"a">>), FileEntry("x")>> } \cup X) :
                     X \in { {}, { <<ProjectRootOnHost(OwnerU, OwnerU), DirEntry>> } } }
    /\ activeContainers =
          [k \in RegistryKeys |->
              IF k \in SessionKeys
              THEN [container |-> 1, projectSlug |-> SlugD, vfsProjectRootId |-> FsProjectId]
              ELSE [container |-> 2, projectSlug |-> OwnerU, vfsProjectRootId |-> NullId]]
    /\ containerTimers = [k \in RegistryKeys |-> "armed"]
    /\ activePtySessions =
          [k \in RegistryKeys |-> [containerId |-> activeContainers[k].container, cols |-> 80, ptyProcess |-> 1]]
    /\ containers =
          [c \in ContainerIds |->
              IF c = 1 THEN [NoContainer EXCEPT !.state = "running", !.slug = SlugD, !.pulled = TRUE]
              ELSE IF c = 2
              THEN [NoContainer EXCEPT !.state = "running", !.slug = OwnerU, !.pulled = TRUE]
              ELSE NoContainer]
    /\ tasks = [i \in TaskSlots |-> IdleTask]
    /\ pulled = {SlugD, OwnerU}
    /\ ensured = NoEnsure
    /\ spawned = 0
    /\ ptyProcesses = <<>>
    /\ disconnected = {}

NextSweep ==
    \/ CleanupContainers
    \/ \E key \in RegistryKeys : IdleTimePasses(key)
    \/ \E i \in TaskSlots, key \in RegistryKeys : TimerFires(i, key)
    \/ \E i \in TaskSlots, ok \in BOOLEAN : TeardownPushed(i, ok)
    \/ \E i \in TaskSlots, ok \in BOOLEAN : TeardownInspected(i, ok)
    \/ \E i \in TaskSlots, ok \in BOOLEAN : TeardownStopped(i, ok)
    \/ \E i \in TaskSlots, ok \in BOOLEAN : TeardownRemoved(i, ok)
    \/ \E c \in ContainerIds : ContainerExits(c)
    \/ \E key \in RegistryKeys : PtyInput(key)
    \/ \E key \in RegistryKeys : Disconnect(key)
    \/ \E key \in RegistryKeys : PtyExit(key)

\* the next await of a teardown ends: its push, inspect, stop or remove
\* returns or throws
TeardownStep(i) ==
    \E ok \in BOOLEAN :
        \/ TeardownPushed(i, ok)
        \/ TeardownInspected(i, ok)
        \/ TeardownStopped(i, ok)
        \/ TeardownRemoved(i, ok)

SpecSweep == InitSweep /\ [][NextSweep]_vars

\* the awaits that a teardown at this point still has before it
AwaitsLeft(pc) ==
    IF pc = "s_push" THEN 4 ELSE IF pc = "s_inspect" THEN 3 ELSE IF pc = "s_stop" THEN 2
    ELSE IF pc = "s_remove" THEN 1 ELSE 0

SweepRuns == \E i \in TaskSlots : tasks[i].kind = "sweep"

TaskRoot(t) == ProjectRootOnHost(t.key[1], t.session.projectSlug)

\* C26 (push with a missing host root): when the host root does not exist,
\* syncWorkspaceToVfs returns without an error and creates, changes and
\* deletes no node; a stop with sync of such a session goes on from the
\* push to the inspection of the sandbox with the store unchanged, and when
\* it ends the session is unregistered and the sandbox is removed, unless
\* the remove call itself has thrown.
C26_PushWithMissingRoot ==
    /\ [](\A key \in RegistryKeys :
            LET session == activeContainers[key]
                root == ProjectRootOnHost(key[1], session.projectSlug)
                r == syncWorkspaceToVfs(vfs, host, key[1], root, session.vfsProjectRootId, clock, "asc")
            IN  (session # NoSession /\ ~ HostExists(host, root))
                => (r.ok /\ r.store = vfs /\ r.created = {} /\ r.deleted = {} /\ r.saved = {}))
    /\ [][\A i \in TaskSlots :
            (/\ tasks[i].kind \in {"stop", "sweep"}
             /\ ~ HostExists(host, TaskRoot(tasks[i])))
            => /\ (tasks[i].pc = "s_push" /\ tasks'[i] # tasks[i])
                  => (vfs' = vfs /\ tasks'[i].pc = "s_inspect" /\ tasks'[i].key = tasks[i].key)
               /\ tasks'[i] = IdleTask
                  => /\ tasks[i].pc = "s_remove"
                     /\ activeContainers'[tasks[i].key] = NoSession
                     /\ \/ containers'[tasks[i].session.container].state = "removed"
                        \/ containers'[tasks[i].session.container].removeFailed]_vars

\* the stop of a session whose host root is missing has removed its sandbox
C26_Witness ==
    /\ ~ HostExists(host, ProjectRootOnHost(OwnerU, OwnerU))
    /\ \E c \in ContainerIds :
           /\ containers[c].slug = OwnerU
           /\ containers[c].swept
           /\ containers[c].state = "removed"
    /\ \A key \in RegistryKeys : activeContainers[key] = NoSession
    /\ ~SweepRuns

----------------------------------------------------------------------------
(* SpecPty: the handlers of one terminal socket - initialize_pty, the exit *)
(* callbacks of its PTY processes, disconnect - in every interleaving.     *)
(* The awaits of initialize_pty (project lookup, pull, container and shell *)
(* check) touch no PTY state and are one suspension of the call; whether   *)
(* they succeed is an input.                                               *)

\* the PTY processes: each initialize_pty spawns at most one
PtyIds == 1..MaxSpawns

\* a process is "live" from pty.spawn on, "ended" when it was killed or its
\* shell has ended and its onExit callback is due, "reaped" after that
NoProcess == [state |-> "none", socket |-> <<>>]

InitPty ==
    /\ pathCall = NoCall
    /\ fsLast = NoRequest
    /\ SyncIdle
    /\ vfs = << FileDoc(OwnerU, SlugD, "folder", "", NullId, 0) >>
    /\ host = HostOf({ <<ParentOf(FsRoot), DirEntry>> })
    /\ activeContainers = [k \in RegistryKeys |-> NoSession]
    /\ containerTimers = [k \in RegistryKeys |-> "none"]
    /\ activePtySessions = [k \in RegistryKeys |-> NoPty]
    /\ containers = [c \in ContainerIds |-> NoContainer]
    /\ tasks = [i \in TaskSlots |-> IdleTask]
    /\ pulled = {}
    /\ ensured = NoEnsure
    /\ spawned = 0
    /\ ptyProcesses = [p \in PtyIds |-> NoProcess]
    /\ disconnected = {}

\* ptyProcess.kill() of the process that a session holds
Killed(procs, session) ==
    IF session # NoPty /\ procs[session.ptyProcess].state = "live"
    THEN [procs EXCEPT ![session.ptyProcess].state = "ended"]
    ELSE procs

\* initialize_pty up to its first await: the PTY of an old session of the
\* socket is killed and the session deleted
OnInitializePty(i, key) ==
    /\ key \notin disconnected
    /\ Begin(i, Task("pty", "y_prepare", key, SlugD, FsProjectId))
    /\ ptyProcesses' = Killed(ptyProcesses, activePtySessions[key])
    /\ activePtySessions' = [activePtySessions EXCEPT ![key] = NoPty]
    /\ UNCHANGED <<vfs, host, activeContainers, containerTimers, containers, pulled,
                   disconnected, pathCall, fsLast, clock, syncLog>>

\* the awaits of initialize_pty have ended: the PTY is spawned, the session
\* set, the timer reset; or one of them has thrown, and the catch kills the
\* PTY of the session that the socket has now and deletes that session
OnPtyPrepared(i, ok) ==
    LET t == tasks[i]
        free == {p \in PtyIds : ptyProcesses[p].state = "none"}
        pid == CHOOSE p \in free : \A q \in free : p <= q
    IN  /\ t.pc = "y_prepare"
        /\ free # {}
        /\ IF ok
           THEN /\ ptyProcesses' = [ptyProcesses EXCEPT ![pid] = [state |-> "live", socket |-> t.key]]
                /\ activePtySessions' = [activePtySessions EXCEPT ![t.key] =
                                            [containerId |-> 1, cols |-> 80, ptyProcess |-> pid]]
                /\ containerTimers' = resetContainerTimer(containerTimers, t.key)
           ELSE /\ ptyProcesses' = Killed(ptyProcesses, activePtySessions[t.key])
                /\ activePtySessions' = [activePtySessions EXCEPT ![t.key] = NoPty]
                /\ UNCHANGED containerTimers
        /\ tasks' = [tasks EXCEPT ![i] = IdleTask]
        /\ UNCHANGED <<vfs, host, activeContainers, containers, pulled, ensured, spawned,
                       disconnected, pathCall, fsLast, clock, syncLog>>

\* the shell of a PTY ends by itself
ShellEnds(pid) ==
    /\ ptyProcesses[pid].state = "live"
    /\ ptyProcesses' = [ptyProcesses EXCEPT ![pid].state = "ended"]
    /\ UNCHANGED <<vfs, host, activeContainers, containerTimers, activePtySessions, containers,
                   tasks, pulled, ensured, spawned, disconnected, pathCall, fsLast, clock, syncLog>>

\* ptyProcess.onExit of a process that has ended: the session of its socket
\* is deleted
OnExit(pid) ==
    /\ ptyProcesses[pid].state = "ended"
    /\ ptyProcesses' = [ptyProcesses EXCEPT ![pid].state = "reaped"]
    /\ activePtySessions' = [activePtySessions EXCEPT ![ptyProcesses[pid].socket] = NoPty]
    /\ UNCHANGED <<vfs, host, activeContainers, containerTimers, containers, tasks, pulled,
                   ensured, spawned, disconnected, pathCall, fsLast, clock, syncLog>>

\* disconnect: the PTY of the session of the socket is killed and the
\* session deleted
OnDisconnect(key) ==
    /\ key \notin disconnected
    /\ disconnected' = disconnected \cup {key}
    /\ ptyProcesses' = Killed(ptyProcesses, activePtySessions[key])
    /\ activePtySessions' = [activePtySessions EXCEPT ![key] = NoPty]
    /\ UNCHANGED <<vfs, host, activeContainers, containerTimers, containers, tasks, pulled,
                   ensured, spawned, pathCall, fsLast, clock, syncLog>>

NextPty ==
    \/ \E i \in TaskSlots, key \in SessionKeys : OnInitializePty(i, key)
    \/ \E i \in TaskSlots, ok \in BOOLEAN : OnPtyPrepared(i, ok)
    \/ \E pid \in PtyIds : ShellEnds(pid)
    \/ \E pid \in PtyIds : OnExit(pid)
    \/ \E key \in SessionKeys : OnDisconnect(key)

SpecPty == InitPty /\ [][NextPty]_vars

\* C39 (PTY tracking): every live PTY process of a socket is the one that
\* activePtySessions holds for the socket; the exit callback of a process
\* that the session of its socket does not hold leaves that session alone;
\* and after the disconnect of a socket, once no initialize_pty of the
\* socket is in flight, the socket has no session and no live process.
C39_PtyTracking ==
    /\ [](/\ \A pid \in PtyIds :
                ptyProcesses[pid].state = "live"
                => activePtySessions[ptyProcesses[pid].socket].ptyProcess = pid
          /\ \A key \in disconnected :
                (\A i \in TaskSlots : tasks[i].key # key)
                => /\ activePtySessions[key] = NoPty
                   /\ \A pid \in PtyIds :
                         ~ (ptyProcesses[pid].state = "live" /\ ptyProcesses[pid].socket = key))
    /\ [][\A pid \in PtyIds :
            (/\ ptyProcesses[pid].state = "ended"
             /\ ptyProcesses'[pid].state = "reaped"
             /\ activePtySessions[ptyProcesses[pid].socket].ptyProcess # pid)
            => activePtySessions' = activePtySessions]_vars

=============================================================================
